---- MODULE Spec2Model ----
(***************************************************************************)
(* The capture-to-transcription pipeline of whisperdict: the capture       *)
(* worker thread (recording.rs), the orchestrator's start_recording and    *)
(* stop_recording (app_state.rs), the supervisor of the resident server    *)
(* process (transcribe_with_server, spawn_server, preload) and the server  *)
(* process itself (child_transcribe.rs, main.rs).                          *)
(***************************************************************************)
EXTENDS Integers, Sequences, FiniteSets, TLC

\* ------------------------------------------------------------------ bounds
\* frames the audio callback delivers to one stream
MaxSamples == 1
\* commands waiting in the capture worker's channel
MaxQueue == 2
\* free_transcriptions_left when the application starts
FreeInit == 1

\* ------------------------------------------------------- program constants
TargetRate == 16000

\* The tasks that run a toggle: the UI command (lib.rs toggle_recording) and
\* the task the hotkey listener spawns (hotkeys.rs). Each runs one toggle
\* after another.
Tasks == {"ui", "hotkey"}
\* The task that runs preload_transcribe_server (spawned by run's setup and by
\* the set_active_model command).
Warmups == {"warmup"}
Callers == Tasks \cup Warmups

\* Models of MODEL_LIST the run uses, and the id delete_model stores when no
\* model is left (it is not an entry of MODEL_LIST).
Models == {"base", "small"}
ModelIds == Models \cup {"none"}
\* sample rates the input device may run at
Rates == {16000, 48000}
\* what the engine may hear in a file: nothing, or a transcript
Transcripts == {"", "hola"}

None == "None"

VARIABLES
    \* capture worker (recording.rs)
    cmdq,        \* the mpsc channel of Command
    recorder,    \* the thread's  recorder: Option<Recorder>
    recording,   \* the AtomicBool
    reply,       \* per task: the one-shot reply channel of its Stop
    opens,       \* history: streams opened since the worker last handled a Stop
    \* orchestrator (app_state.rs)
    pc,          \* where each task is
    loc,         \* each task's locals
    tray,        \* TrayController.mode
    event,       \* payload of the last status:changed event
    \* configuration and files
    cfg,         \* AppConfig behind its mutex
    modelValid,  \* model_is_valid per model of MODEL_LIST
    \* supervisor (app_state.rs) and the child processes
    lock,        \* holder of the Mutex<Option<TranscribeServer>>
    handle,      \* the Option<TranscribeServer>: its model_id (and who spawned it)
    srv,         \* the child process of the handle and its two pipes
    sup,         \* history, per call: its spawns, the lines it wrote and read
    \* history: the call that returned in the last step, if one did (or what
    \* the worker made of a Start command in the last step)
    last,
    \* a function of the library applied on its own: its name, its argument
    \* and, once it has returned, its result
    unit,
    \* the server processes whose handle the supervisor has dropped and that
    \* still run (followed only where old.watch is set: they have no pipe to
    \* the supervisor any more and cannot act on it)
    old

workerVars == <<cmdq, recorder, recording, reply, opens>>
orchVars == <<pc, loc, tray, event>>
fileVars == <<cfg, modelValid>>
supVars == <<lock, handle, srv, sup>>
libVars == <<unit>>
procVars == <<old>>
vars == <<cmdq, recorder, recording, reply, opens, pc, loc, tray, event,
          cfg, modelValid, lock, handle, srv, sup, last, unit, old>>

\* --------------------------------------------------------------- values
Ok(v) == [ok |-> TRUE, val |-> v]
Err(m) == [ok |-> FALSE, val |-> m]
NoRet == [ok |-> TRUE, val |-> None]

NoLoc == [model |-> None, lang |-> None, wav |-> None, attempt |-> 1, res |-> NoRet]
NoSup == [spawns |-> <<>>, writes |-> <<>>, reads |-> <<>>]
\* no transcription:result event
NoResult == [text |-> None, model_id |-> None]
NoLast == [who |-> None, op |-> None, ret |-> NoRet, sup |-> NoSup, did |-> <<>>,
           wav |-> None, from |-> None, result |-> NoResult]

\* no library function is applied on its own
NoUnit == [fn |-> None]
NoProc == [st |-> "none", in |-> <<>>, out |-> <<>>]
NoOld == [watch |-> FALSE, flip |-> FALSE, procs |-> <<>>]
NoHandle == [model_id |-> None, by |-> None]
NoRecorder == [on |-> FALSE, n |-> 0, rate |-> TargetRate]
NoReply == [full |-> FALSE, n |-> 0, rate |-> TargetRate]

\* AudioBuffer { samples, sample_rate }: the samples by their number
AudioBuffer(n, r) == [n |-> n, rate |-> r]

\* ------------------------------------------------ f32 arithmetic (IEEE 754)
\* A positive f32 is m / 2^k with 2^23 <= m <= 2^24 (k may be negative); zero
\* is m = 0. Every operation rounds its exact result to the nearest such
\* number, ties to the even mantissa. Products are formed in two 12-bit limbs
\* so that no intermediate value leaves 32 bits.
RECURSIVE Pow2(_)
Pow2(k) == IF k = 0 THEN 1 ELSE 2 * Pow2(k - 1)

RECURSIVE BitLen(_)
BitLen(x) == IF x = 0 THEN 0 ELSE 1 + BitLen(x \div 2)

F32Zero == [m |-> 0, k |-> 0]

\* long division of rem / q continued bit by bit until the quotient has 24 bits
RECURSIVE DivBits(_, _, _, _)
DivBits(quot, rem, q, k) ==
    IF quot >= 8388608 THEN [quot |-> quot, rem |-> rem, k |-> k]
    ELSE IF 2 * rem >= q THEN DivBits(2 * quot + 1, 2 * rem - q, q, k + 1)
                         ELSE DivBits(2 * quot, 2 * rem, q, k + 1)

\* p as f32 / q as f32 for integers 0 <= p, 0 < q below 2^24 (exact as f32)
F32Div(p, q) ==
    IF p = 0 THEN F32Zero
    ELSE LET d == DivBits(p \div q, p % q, q, 0)
             up == 2 * d.rem > q \/ (2 * d.rem = q /\ d.quot % 2 = 1)
         IN [m |-> IF up THEN d.quot + 1 ELSE d.quot, k |-> d.k]

\* n as f32 * x for an integer 0 <= n < 2^17 and an f32 x
F32Mul(n, x) ==
    IF n = 0 \/ x.m = 0 THEN F32Zero
    ELSE LET low == n * (x.m % 4096)
             hi == n * (x.m \div 4096) + low \div 4096
             lo == low % 4096
             s == BitLen(hi) - 12
         IN IF s <= 0
               THEN [m |-> hi * 4096 + lo, k |-> x.k]
               ELSE LET quot == IF s <= 12 THEN hi * Pow2(12 - s) + lo \div Pow2(s)
                                           ELSE hi \div Pow2(s - 12)
                        rem == IF s <= 12 THEN lo % Pow2(s)
                                          ELSE (hi % Pow2(s - 12)) * 4096 + lo
                        half == Pow2(s - 1)
                        up == rem > half \/ (rem = half /\ quot % 2 = 1)
                    IN [m |-> IF up THEN quot + 1 ELSE quot, k |-> x.k - s]

\* i as f32 / x for an integer 0 <= i < 2^24 and an f32 x > 0
F32DivBy(i, x) ==
    LET d == F32Div(i, x.m) IN [m |-> d.m, k |-> d.k - x.k]

\* `as usize` of a non-negative f32 below 2^31: truncation
F32ToUsize(x) ==
    IF x.k > 30 THEN 0
    ELSE IF x.k >= 0 THEN x.m \div Pow2(x.k)
    ELSE x.m * Pow2(0 - x.k)

\* ------------------------------------------------------------- audio.rs
\* let ratio = 16_000.0 / buffer.sample_rate as f32;
\* (computed once for every sample rate of the model)
RatioOf == [rate \in Rates \cup {8000, 16000, 32000, 44100, 48000} |->
                F32Div(TargetRate, rate)]
Ratio(rate) == RatioOf[rate]

\* let out_len = (buffer.samples.len() as f32 * ratio) as usize;
OutLen(len, rate) == F32ToUsize(F32Mul(len, Ratio(rate)))

\* A resampler that leaves the source rate on its result: "applying it twice
\* equals applying it once" must not survive it.
ResampledRateKept(rate) == rate

\* sample_rate: 16_000 of the buffer resample_to_16k builds
ResampledRate(rate) == TargetRate

\* resample_to_16k on a buffer given by the number of its samples: the buffer
\* unchanged at 16 kHz, else out_len samples at 16 kHz
resample_to_16k(b) ==
    IF b.rate = TargetRate THEN b
    ELSE AudioBuffer(OutLen(b.n, b.rate), ResampledRate(b.rate))

\* A sample is written as the tuple of integers that determines its value: a
\* sample v of the device is <<v>>, and  a + (b - a) * frac  is a when frac is
\* zero or b equals a, else the tuples of a and b followed by frac.
\* let frac = src_pos - idx as f32  (exact): its numerator and exponent
Frac(x) ==
    IF x.k <= 0 THEN <<0, 0>>
    ELSE IF x.k > 24 THEN <<x.m, x.k>>
    ELSE <<x.m % Pow2(x.k), x.k>>

Lerp(a, b, frac) == IF frac[1] = 0 \/ a = b THEN a ELSE a \o b \o frac

\* buffer.samples.get(idx).copied(), with the index counted from 0
SampleAt(samples, idx) == IF idx < Len(samples) THEN <<samples[idx + 1]>> ELSE <<>>

\* resample_to_16k on the samples themselves (linear interpolation)
resample_to_16k_samples(buffer) ==
    IF buffer.sample_rate = TargetRate THEN buffer
    ELSE LET ratio == Ratio(buffer.sample_rate)
             out_len == OutLen(Len(buffer.samples), buffer.sample_rate)
             out(i) ==
                 LET src_pos == F32DivBy(i, ratio)
                     idx == F32ToUsize(src_pos)
                     ga == SampleAt(buffer.samples, idx)
                     gb == SampleAt(buffer.samples, idx + 1)
                     a == IF ga = <<>> THEN <<0>> ELSE ga[1]
                     b == IF gb = <<>> THEN a ELSE gb[1]
                 IN Lerp(a, b, Frac(src_pos))
         IN [samples |-> [i \in 1..out_len |-> out(i - 1)],
             sample_rate |-> ResampledRate(buffer.sample_rate)]

\* ---------------------------------------------- app_state.rs: write_temp_wav
\* An f32 sample: NaN, an infinity, or sign * m / 2^k.
F32Num(sign, m, k) == [kind |-> "num", sign |-> sign, m |-> m, k |-> k]
F32Inf(sign) == [kind |-> "inf", sign |-> sign, m |-> 0, k |-> 0]
F32NaN == [kind |-> "nan", sign |-> 1, m |-> 0, k |-> 0]
F32One(sign) == F32Num(sign, Pow2(23), 23)

\* |x| > 1.0
AboveOne(x) ==
    \/ x.kind = "inf"
    \/ /\ x.kind = "num"
       /\ x.m # 0
       /\ (x.k < 0 \/ (x.k <= 24 /\ x.m > Pow2(x.k)))

\* A writer that does not clamp: "every written value lies in
\* [-32767, 32767]" must not survive it.
ClampNever(x) == x

\* sample.clamp(-1.0, 1.0): NaN stays NaN
Clamp(x) == IF AboveOne(x) THEN F32One(x.sign) ELSE x

\* clamped * i16::MAX as f32
TimesI16Max(x) ==
    IF x.kind # "num" THEN x
    ELSE LET prod == F32Mul(32767, [m |-> x.m, k |-> x.k])
         IN F32Num(x.sign, prod.m, prod.k)

\* `as i16`: NaN gives 0, the value is truncated toward zero and saturates
AsI16(x) ==
    IF x.kind = "nan" THEN 0
    ELSE IF x.kind = "inf" THEN (IF x.sign = 1 THEN 32767 ELSE 0 - 32768)
    ELSE LET t == F32ToUsize([m |-> x.m, k |-> x.k])
         IN IF x.sign = 1 THEN (IF t > 32767 THEN 32767 ELSE t)
                          ELSE (IF t > 32768 THEN 0 - 32768 ELSE 0 - t)

\* the loop of write_temp_wav: the value written for one sample
PcmValue(sample) == AsI16(TimesI16Max(Clamp(sample)))

\* write_temp_wav: the 16-bit values of the file, or the error of the writer
write_temp_wav(samples, io_ok) ==
    IF io_ok THEN Ok([i \in 1..Len(samples) |-> PcmValue(samples[i])])
    ELSE Err("create wav")

\* ------------------------------------------------------------ licensing.rs
ENTITLEMENT_FREE == "free"
ENTITLEMENT_PRO == "pro"
LICENSE_STATUS_NONE == "none"
LICENSE_STATUS_VALID == "valid"
LICENSE_STATUS_INVALID == "invalid"
LICENSE_INVALID_CODE == "LICENSE_INVALID"
DEFAULT_LICENSE_ISSUER == "whisperdict"

\* str::trim on the paths the model uses
Trim(path) ==
    CASE path = " " -> ""
      [] path = " a.wdlic " -> "a.wdlic"
      [] OTHER -> path

\* normalize_mac_address: "unknown" in any case, or twelve hex digits in upper
\* case; anything else is an error
normalize_mac_address(value) ==
    CASE value = "unknown" -> Ok("UNKNOWN")
      [] value = "Unknown" -> Ok("UNKNOWN")
      [] value = "aa:bb:cc:dd:ee:01" -> Ok("AABBCCDDEE01")
      [] value = "AA-BB-CC-DD-EE-01" -> Ok("AABBCCDDEE01")
      [] value = "00:00:00:00:00:00" -> Ok("000000000000")
      [] OTHER -> Err("invalid macAddress format")

\* A validation that accepts every MAC address: "a license bound to another
\* MAC address is rejected" must not survive it.
MacAlwaysMatches(payload_mac, device_mac) == TRUE

\* payload_mac != device_mac, after both were normalized
MacMatches(payload_mac, device_mac) == payload_mac = device_mac

\* validate_payload
validate_payload(payload, issuer, device_mac) ==
    IF payload.issuer # issuer THEN Err("license issuer mismatch")
    ELSE IF ~payload.complete THEN Err("license payload is incomplete")
    ELSE IF payload.expires_at = "" THEN Err("invalid expiresAt")
    ELSE LET payload_mac == normalize_mac_address(payload.mac_address)
             mac == normalize_mac_address(device_mac)
         IN IF ~payload_mac.ok THEN payload_mac
            ELSE IF ~mac.ok THEN mac
            ELSE IF ~MacMatches(payload_mac.val, mac.val)
                    THEN Err("license macAddress mismatch")
            ELSE Ok("")

\* validate_license_contents: the container, the trusted keys, the payload,
\* the signature (by one of the trusted keys), then validate_payload
validate_license_contents(raw, trusted_public_keys, issuer, device_mac) ==
    IF ~raw.container THEN Err("invalid license format")
    ELSE IF raw.version # "1" THEN Err("unsupported license version")
    ELSE IF raw.algorithm # "RSA-SHA256" THEN Err("unsupported license algorithm")
    ELSE IF raw.kid # "1" THEN Err("unsupported license key id")
    ELSE IF trusted_public_keys = {} THEN Err("no trusted public keys configured")
    ELSE IF ~raw.payload_parses THEN Err("invalid license payload")
    ELSE IF raw.signed_by \notin trusted_public_keys
            THEN Err("license signature verification failed")
    ELSE validate_payload(raw.payload, issuer, device_mac)

\* validate_license_path: read the file, then validate what was read
validate_license_path(path, files, trusted_public_keys, issuer, device_mac) ==
    IF path \notin DOMAIN files \/ ~files[path].readable
       THEN Err("read license file")
       ELSE validate_license_contents(files[path], trusted_public_keys, issuer,
                                      device_mac)

\* sanitize_config
sanitize_config(config) ==
    [entitlement |-> IF config.entitlement # ENTITLEMENT_PRO
                        THEN ENTITLEMENT_FREE ELSE config.entitlement,
     license_status |->
         IF config.license_status \notin {LICENSE_STATUS_NONE, LICENSE_STATUS_VALID,
                                          LICENSE_STATUS_INVALID}
            THEN LICENSE_STATUS_NONE ELSE config.license_status,
     license_file_path |->
         IF config.license_file_path # None /\ Trim(config.license_file_path) = ""
            THEN None ELSE config.license_file_path]

LicenseConfig(entitlement, license_status, path) ==
    [entitlement |-> entitlement, license_status |-> license_status,
     license_file_path |-> path]

\* A rejected import that leaves the entitlement as it was: "pro exactly
\* when the status is valid" must not survive it.
RejectedEntitlementKept(config) == config.entitlement

\* config.entitlement of the two rejecting arms of import_license_file
RejectedEntitlement(config) == ENTITLEMENT_FREE

\* import_license_file: the configuration it leaves and what it returns
import_license_file(path, config, files, trusted_public_keys, issuer, device_mac) ==
    LET normalized_path == Trim(path)
        stored == IF normalized_path = "" THEN None ELSE normalized_path
    IN IF normalized_path = ""
          THEN [config |-> LicenseConfig(RejectedEntitlement(config),
                                         LICENSE_STATUS_INVALID, stored),
                res |-> Err(LICENSE_INVALID_CODE)]
          ELSE IF validate_license_path(normalized_path, files, trusted_public_keys,
                                        issuer, device_mac).ok
                  THEN [config |-> LicenseConfig(ENTITLEMENT_PRO, LICENSE_STATUS_VALID,
                                                 stored),
                        res |-> Ok("")]
                  ELSE [config |-> LicenseConfig(RejectedEntitlement(config),
                                                 LICENSE_STATUS_INVALID, stored),
                        res |-> Err(LICENSE_INVALID_CODE)]

\* A validation that calls a configuration without a license path invalid:
\* "status none when no path is stored" must not survive it.
NoPathStatusInvalid == LICENSE_STATUS_INVALID

\* config.license_status of the None arm of validate_current_license
NoPathStatus == LICENSE_STATUS_NONE

\* validate_current_license: the configuration it leaves; the
\* LicenseValidationResult carries the same entitlement and status
validate_current_license(config, files, trusted_public_keys, issuer, device_mac) ==
    LET clean == sanitize_config(config) IN
    IF clean.license_file_path = None
       THEN [config |-> LicenseConfig(ENTITLEMENT_FREE, NoPathStatus, None),
             res |-> Ok(""), message |-> None]
       ELSE IF validate_license_path(clean.license_file_path, files,
                                     trusted_public_keys, issuer, device_mac).ok
               THEN [config |-> LicenseConfig(ENTITLEMENT_PRO, LICENSE_STATUS_VALID,
                                              clean.license_file_path),
                     res |-> Ok(""), message |-> None]
               ELSE [config |-> LicenseConfig(ENTITLEMENT_FREE, LICENSE_STATUS_INVALID,
                                              clean.license_file_path),
                     res |-> Ok(""),
                     message |-> "Imported license file is invalid."]

\* clear_license
clear_license(config) == LicenseConfig(ENTITLEMENT_FREE, LICENSE_STATUS_NONE, None)

\* ------------------------------------------------------ capture worker
\* A worker that opens a stream at every Start: "only one stream" must not
\* survive it.
StartAlwaysOpens(rec) == TRUE

\* if recorder.is_none(): a stream is opened only when none is held
StartOpens(rec) == ~rec.on

\* Command::Start: the flag is set only when Recorder::start() returned Ok.
WorkerStart ==
    /\ UNCHANGED libVars
    /\ UNCHANGED procVars
    /\ cmdq # <<>> /\ Head(cmdq).kind = "Start"
    /\ cmdq' = Tail(cmdq)
    /\ IF StartOpens(recorder)
          THEN \/ \E r \in Rates :
                    /\ recorder' = [on |-> TRUE, n |-> 0, rate |-> r]
                    /\ recording' = TRUE
                    /\ opens' = opens + 1
                    /\ last' = [NoLast EXCEPT !.who = "worker", !.op = "start_opened"]
               \/ /\ UNCHANGED <<recorder, recording, opens>>
                  /\ last' = [NoLast EXCEPT !.who = "worker", !.op = "start_failed"]
          ELSE /\ UNCHANGED <<recorder, recording, opens>>
               /\ last' = [NoLast EXCEPT !.who = "worker", !.op = "start_ignored"]
    /\ UNCHANGED <<reply, orchVars, fileVars, supVars>>

\* A worker that always replies with the empty buffer: "the accumulated
\* samples at the native rate" must not survive it.
StopReplyAlwaysEmpty(rec) == [full |-> TRUE, n |-> 0, rate |-> TargetRate]

\* what the Stop arm sends: the buffer of the active recorder (its samples and
\* its sample_rate), or the empty buffer at 16000 Hz
StopReply(rec) ==
    IF rec.on THEN [full |-> TRUE, n |-> rec.n, rate |-> rec.rate]
              ELSE [full |-> TRUE, n |-> 0, rate |-> TargetRate]

\* A worker that leaves the flag set when Stop takes the stream: "the flag is
\* true only while a stream is held" must not survive it.
FlagAfterStopKept == TRUE

\* recording_flag.store(false, Ordering::SeqCst) of the Stop arm
FlagAfterStop == FALSE

\* A worker that leaves the recorder in place when it handles Stop: "only one
\* of the concurrent stops receives the samples" must not survive it.
RecorderKept(rec) == rec

\* recorder.take(): the worker's Option<Recorder> is None afterwards
RecorderTaken(rec) == NoRecorder

\* Command::Stop(reply): take the recorder, clear the flag, reply with its
\* buffer; with no recorder reply with the empty 16 kHz buffer.
WorkerStop ==
    /\ UNCHANGED libVars
    /\ UNCHANGED procVars
    /\ cmdq # <<>> /\ Head(cmdq).kind = "Stop"
    /\ cmdq' = Tail(cmdq)
    /\ opens' = 0
    /\ reply' = [reply EXCEPT ![Head(cmdq).reply] = StopReply(recorder)]
    /\ IF recorder.on
          THEN /\ recorder' = RecorderTaken(recorder)
               /\ recording' = FlagAfterStop
          ELSE UNCHANGED <<recorder, recording>>
    /\ last' = NoLast
    /\ UNCHANGED <<orchVars, fileVars, supVars>>

\* The device callback: push_samples appends the mono frames of one chunk.
AudioCallback ==
    /\ UNCHANGED libVars
    /\ UNCHANGED procVars
    /\ recorder.on
    /\ recorder.n < MaxSamples
    /\ recorder' = [recorder EXCEPT !.n = @ + 1]
    /\ last' = NoLast
    /\ UNCHANGED <<cmdq, recording, reply, opens, orchVars, fileVars, supVars>>

\* ------------------------------------------------ helpers of the orchestrator
StartCmd == [kind |-> "Start", reply |-> None]
StopCmd(t) == [kind |-> "Stop", reply |-> t]

StatusEvent(status, message) == [status |-> status, message |-> message]

\* the payload of the transcription:result event: text and model_id
TranscriptionEvent(text, model_id) == [text |-> text, model_id |-> model_id]

\* A call returns r to its caller: the task is over and its locals are gone.
\* did: the collaborators the returning step used, in the order of the code;
\* from: the tray mode the step started in; result: the transcription:result
\* event the step emitted, if it emitted one.
ReturnWith(t, op, r, did, result) ==
    /\ pc' = [pc EXCEPT ![t] = "idle"]
    /\ loc' = [loc EXCEPT ![t] = NoLoc]
    /\ sup' = [sup EXCEPT ![t] = NoSup]
    /\ last' = [who |-> t, op |-> op, ret |-> r, sup |-> sup[t], did |-> did,
                wav |-> loc[t].wav, from |-> tray, result |-> result]

Return(t, op, r, did) == ReturnWith(t, op, r, did, NoResult)

\* models::get_model_info: the entry of MODEL_LIST, if any
KnownModel(id) == id \in Models

\* A caller that never downloads: "no spawn before the download" must not
\* survive it.
NeedsDownloadNever(valid) == FALSE

\* if !models::model_is_valid(&model_id)? { self.download_model(..).await?; }
NeedsDownload(valid) == ~valid

\* the path write_temp_wav chooses, ECO-<milliseconds>.wav: one per call
TempWav(t) == IF t = "ui" THEN "ECO-1.wav" ELSE "ECO-2.wav"

\* ------------------------------------------------------------ toggles
\* toggle_recording (and the hotkey tasks): read status().recording and call
\* stop_recording or start_recording.
Toggle(t) ==
    /\ UNCHANGED libVars
    /\ UNCHANGED procVars
    /\ pc[t] = "idle"
    /\ pc' = [pc EXCEPT ![t] = IF recording THEN "stop" ELSE "start"]
    /\ last' = NoLast
    /\ UNCHANGED <<loc, tray, event, workerVars, fileVars, supVars>>

\* A start_recording that refuses to start from the Error status: "Error is
\* not sticky" must not survive it.
StartBlockedByError(flag, mode) == flag \/ mode = "Error"

\* if self.recorder.is_recording() { return Ok(()) }: the flag decides, the
\* tray mode is not looked at
StartIsNoop(flag, mode) == flag

\* start_recording up to recorder.start(): nothing if the flag is set, else the
\* Start command is sent.
StartRecording(t) ==
    /\ UNCHANGED libVars
    /\ UNCHANGED procVars
    /\ pc[t] = "start"
    /\ IF StartIsNoop(recording, tray)
          THEN /\ Return(t, "start_recording", Ok(""), <<>>)
               /\ UNCHANGED cmdq
          ELSE /\ Len(cmdq) < MaxQueue
               /\ cmdq' = Append(cmdq, StartCmd)
               /\ pc' = [pc EXCEPT ![t] = "start_mode"]
               /\ last' = NoLast
               /\ UNCHANGED <<loc, sup>>
    /\ UNCHANGED <<tray, event, recorder, recording, reply, opens,
                   fileVars, lock, handle, srv>>

\* start_recording after recorder.start(): the tray and the event
StartSetMode(t) ==
    /\ UNCHANGED libVars
    /\ UNCHANGED procVars
    /\ pc[t] = "start_mode"
    /\ tray' = "Recording"
    /\ event' = StatusEvent("recording", None)
    /\ Return(t, "start_recording", Ok(""), <<"set_mode", "emit_status">>)
    /\ UNCHANGED <<workerVars, fileVars, lock, handle, srv>>

\* A stop_recording without its first check: the no-op must not survive it.
StopNeverNoop(flag) == FALSE

\* if !self.recorder.is_recording() { return Ok(String::new()) }
StopIsNoop(flag) == ~flag

\* stop_recording up to recorder.stop()'s send: the empty string if the flag
\* is clear, else Processing, its event and the Stop command.
StopRecording(t) ==
    /\ UNCHANGED libVars
    /\ UNCHANGED procVars
    /\ pc[t] = "stop"
    /\ IF StopIsNoop(recording)
          THEN /\ Return(t, "stop_recording", Ok(""), <<>>)
               /\ UNCHANGED <<tray, event, cmdq>>
          ELSE /\ Len(cmdq) < MaxQueue
               /\ tray' = "Processing"
               /\ event' = StatusEvent("processing", None)
               /\ cmdq' = Append(cmdq, StopCmd(t))
               /\ pc' = [pc EXCEPT ![t] = "stop_wait"]
               /\ last' = NoLast
               /\ UNCHANGED <<loc, sup>>
    /\ UNCHANGED <<recorder, recording, reply, opens, fileVars, lock, handle, srv>>

\* A stop_recording without the short-circuit: the early return on an empty
\* buffer must not survive it.
BufferNeverEmpty(audio) == FALSE

\* if audio.samples.is_empty(): the short-circuit of stop_recording
BufferIsEmpty(audio) == audio.n = 0

\* write_temp_wav and spawn_blocking(transcribe_with_server), or the error of
\* write_temp_wav returned with `?`
WriteWavAndCall(t, model_id, language) ==
    \/ /\ loc' = [loc EXCEPT ![t].model = model_id, ![t].lang = language,
                             ![t].wav = TempWav(t)]
       /\ pc' = [pc EXCEPT ![t] = "sup_lock"]
       /\ last' = NoLast
       /\ UNCHANGED sup
    \/ Return(t, "stop_recording", Err("create wav"), <<>>)

\* stop_recording from the reply of the worker on: resample; an empty buffer
\* returns at once; model_path fails for an id MODEL_LIST does not hold; a
\* model that is not valid is downloaded first.
StopReceive(t) ==
    /\ UNCHANGED libVars
    /\ UNCHANGED procVars
    /\ pc[t] = "stop_wait"
    /\ reply[t].full
    /\ reply' = [reply EXCEPT ![t] = NoReply]
    /\ LET audio == resample_to_16k(AudioBuffer(reply[t].n, reply[t].rate))
           model_id == cfg.active_model
       IN IF BufferIsEmpty(audio)
             THEN /\ tray' = "Idle"
                  /\ Return(t, "stop_recording", Ok(""), <<"set_mode">>)
             ELSE /\ UNCHANGED tray
                  /\ IF ~KnownModel(model_id)
                        THEN Return(t, "stop_recording", Err("unknown model"), <<>>)
                        ELSE IF ~NeedsDownload(modelValid[model_id])
                                THEN WriteWavAndCall(t, model_id, cfg.language)
                                ELSE /\ loc' = [loc EXCEPT ![t].model = model_id,
                                                           ![t].lang = cfg.language]
                                     /\ pc' = [pc EXCEPT ![t] = "stop_download"]
                                     /\ last' = NoLast
                                     /\ UNCHANGED sup
    /\ UNCHANGED <<event, cmdq, recorder, recording, opens, fileVars, lock, handle, srv>>

\* download_model: the collaborator installs the file, or fails
StopDownload(t) ==
    /\ UNCHANGED libVars
    /\ UNCHANGED procVars
    /\ pc[t] = "stop_download"
    /\ \/ /\ modelValid' = [modelValid EXCEPT ![loc[t].model] = TRUE]
          /\ WriteWavAndCall(t, loc[t].model, loc[t].lang)
       \/ /\ Return(t, "stop_recording", Err("download model"), <<>>)
          /\ UNCHANGED modelValid
    /\ UNCHANGED <<tray, event, cfg, workerVars, lock, handle, srv>>

\* A stop_recording that pastes and counts whatever the text: "only a
\* non-empty text is pasted and counted" must not survive it.
PasteAndCountAlways(text) == TRUE

\* if !text.is_empty(): paste_text and decrement_transcriptions
PasteAndCount(text) == text # ""

\* A stop_recording that returns the paste's error: "a failed paste does not
\* fail the request" must not survive it.
ResultPasteChecked(res, pasted) == IF pasted THEN res ELSE Err("paste")

\* let _ = paste_text(&text): the paste's result is dropped and Ok(text) is
\* returned whether the paste succeeded or not
ResultAfterPaste(res, pasted) == res

\* A success path that removes the file last: "deleted before the paste and
\* the result event" must not survive it.
SuccessCallsRemoveLast(text, pasted) ==
    (IF PasteAndCount(text)
        THEN <<IF pasted THEN "paste" ELSE "paste_failed", "decrement">>
        ELSE <<>>)
    \o <<"emit_result", "set_mode", "emit_status", "remove_wav">>

\* the collaborators of the success path, in the order of the code: remove the
\* temp file, paste and decrement, the result event, the tray, the status event
SuccessCalls(text, pasted) ==
    <<"remove_wav">>
    \o (IF PasteAndCount(text)
           THEN <<IF pasted THEN "paste" ELSE "paste_failed", "decrement">>
           ELSE <<>>)
    \o <<"emit_result", "set_mode", "emit_status">>

\* A stop_recording that counts every call the supervisor answered, failed
\* ones too: "decremented only after a successful transcription" must not
\* survive it.
CountedAlways(res) == TRUE

\* the call is counted: text_result is Ok(text) and text is not empty
Counted(res) == res.ok /\ PasteAndCount(res.val)

\* decrement_transcriptions: one less, unless none is left
decrement_transcriptions(left) == IF left > 0 THEN left - 1 ELSE left

\* stop_recording after the supervisor returned
StopResult(t) ==
    /\ UNCHANGED libVars
    /\ UNCHANGED procVars
    /\ pc[t] = "stop_result"
    /\ LET res == loc[t].res IN
       IF ~res.ok
          THEN /\ tray' = "Error"
               /\ event' = StatusEvent("error", res.val)
               /\ Return(t, "stop_recording", res, <<"set_mode", "emit_status">>)
               /\ cfg' = [cfg EXCEPT !.free_transcriptions_left =
                              IF Counted(res) THEN decrement_transcriptions(@) ELSE @]
          ELSE \E pasted \in (IF PasteAndCount(res.val) THEN BOOLEAN ELSE {TRUE}) :
               /\ cfg' = [cfg EXCEPT !.free_transcriptions_left =
                              IF Counted(res) THEN decrement_transcriptions(@) ELSE @]
               /\ tray' = "Idle"
               /\ event' = StatusEvent("idle", None)
               /\ ReturnWith(t, "stop_recording", ResultAfterPaste(res, pasted),
                             SuccessCalls(res.val, pasted),
                             TranscriptionEvent(res.val, loc[t].model))
    /\ UNCHANGED <<modelValid, workerVars, lock, handle, srv>>

\* --------------------------------------------------------- the supervisor
\* the request line  "{language}\t{wav_path}"  by its two fields
request_line(language, wav_path) == <<language, wav_path>>

\* A supervisor that restarts only when it has no handle: the restart rule
\* must not survive it.
needs_restart_no_handle_only(h, model_id) == h = NoHandle

\* needs_restart: no handle, or a handle for another model
needs_restart(h, model_id) == h = NoHandle \/ h.model_id # model_id

\* A supervisor whose lock never blocks: the serialization of the calls must
\* not survive it.
MutexAlwaysFree(l) == TRUE

\* server.lock(): the mutex is taken only when no one holds it
MutexFree(l) == l = "free"

\* read == 0 || line.trim().is_empty()
ReadIsEmpty(r) == r.eof \/ r.text = ""

\* A supervisor that retries after every empty read: the bound on spawns and
\* sends must not survive it.
RetryAlways(attempt) == TRUE

\* The retry is nested in the first read's branch: only the first attempt's
\* read is followed by a respawn.
RetryAllowed(attempt) == attempt = 1

\* A supervisor whose retry sends a request without the path: "the same
\* request" must not survive it.
RequestRetryDiffers(c, attempt) ==
    request_line(loc[c].lang, IF attempt = 1 THEN loc[c].wav ELSE None)

\* the request an attempt sends: the retry sends the same language and path
Request(c, attempt) == request_line(loc[c].lang, loc[c].wav)

\* The process of a TranscribeServer that is dropped: nothing is killed and
\* nothing is waited for, the two pipes are closed. A process that still runs
\* goes on on its own (flip: history, changes with every spawn).
Dropped(child) ==
    IF ~old.watch THEN old
    ELSE [old EXCEPT !.flip = ~@,
                     !.procs = IF child.st \in {"loading", "serving", "gui"}
                                  THEN Append(@, child.st) ELSE @]

\* spawn_server returned Ok and  *guard = Some(..)  replaced the handle: the
\* new child starts loading its model. The old TranscribeServer is dropped,
\* its pipes close and its process is no longer the supervisor's. (by: history, the caller whose
\* call spawned the server.)
Spawned(model_id, c) ==
    /\ handle' = [model_id |-> model_id, by |-> c]
    /\ srv' = [st |-> "loading", in |-> <<>>, out |-> <<>>]
    /\ old' = Dropped(srv)

\* transcribe_with_server returns r to stop_recording; the guard is dropped
SupReturn(c, r) ==
    /\ loc' = [loc EXCEPT ![c].res = r]
    /\ pc' = [pc EXCEPT ![c] = "stop_result"]
    /\ lock' = "free"

\* what read_line gives: a line of the child's output, or end of file once the
\* child has exited and nothing is left in the pipe
CanRead(child) == child.out # <<>> \/ child.st = "exited"
ReadLine(child) ==
    IF child.out # <<>>
       THEN [eof |-> FALSE, text |-> Head(child.out).text, to |-> Head(child.out).to]
       ELSE [eof |-> TRUE, text |-> "", to |-> <<>>]

\* A read that leaves the line it returned in the pipe: "no unread response
\* when the lock is free" must not survive it.
AfterReadLineKept(out) == out

\* read_line consumes the line it returns
AfterReadLine(out) == IF out = <<>> THEN out ELSE Tail(out)

\* history: what a read gave (the line, trimmed, or end of file)
ReadSeen(r) == [eof |-> r.eof, text |-> r.text]

\* lock the mutex; spawn a server if needs_restart
TranscribeBegin(c) ==
    /\ UNCHANGED libVars
    /\ pc[c] = "sup_lock"
    /\ MutexFree(lock)
    /\ IF needs_restart(handle, loc[c].model)
          THEN \/ /\ Spawned(loc[c].model, c)
                  /\ sup' = [sup EXCEPT ![c].spawns = Append(@, "start")]
                  /\ lock' = c
                  /\ pc' = [pc EXCEPT ![c] = "sup_write"]
                  /\ UNCHANGED loc
               \/ /\ SupReturn(c, Err("spawn server"))
                  /\ UNCHANGED <<handle, srv, sup, old>>
          ELSE /\ lock' = c
               /\ pc' = [pc EXCEPT ![c] = "sup_write"]
               /\ UNCHANGED <<loc, handle, srv, sup, old>>
    /\ last' = NoLast
    /\ UNCHANGED <<tray, event, workerVars, fileVars>>

\* writeln!(srv.stdin, ..) and flush, of the first attempt and of the retry:
\* fails once the child has exited
TranscribeWrite(c) ==
    /\ UNCHANGED libVars
    /\ UNCHANGED procVars
    /\ pc[c] = "sup_write"
    /\ lock = c
    /\ IF srv.st = "exited"
          THEN /\ SupReturn(c, Err(IF loc[c].attempt = 1 THEN "write wav path"
                                                         ELSE "write wav path retry"))
               /\ UNCHANGED <<srv, sup>>
          ELSE /\ srv' = [srv EXCEPT !.in = Append(@, Request(c, loc[c].attempt))]
               /\ sup' = [sup EXCEPT ![c].writes = Append(@, Request(c, loc[c].attempt))]
               /\ pc' = [pc EXCEPT ![c] = "sup_read"]
               /\ UNCHANGED <<loc, lock>>
    /\ last' = NoLast
    /\ UNCHANGED <<handle, tray, event, workerVars, fileVars>>

\* read_line of the first attempt and of the retry. An empty first read spawns
\* a fresh server for the retry; otherwise the call returns the line, trimmed.
TranscribeRead(c) ==
    /\ UNCHANGED libVars
    /\ pc[c] = "sup_read"
    /\ lock = c
    /\ CanRead(srv)
    /\ LET r == ReadLine(srv)
           rest == [srv EXCEPT !.out = AfterReadLine(@)]
           seen == [sup EXCEPT ![c].reads = Append(@, ReadSeen(r))]
       IN IF ReadIsEmpty(r) /\ RetryAllowed(loc[c].attempt)
             THEN \/ /\ Spawned(loc[c].model, c)
                     /\ sup' = [seen EXCEPT ![c].spawns = Append(@, "respawn")]
                     /\ pc' = [pc EXCEPT ![c] = "sup_write"]
                     /\ loc' = [loc EXCEPT ![c].attempt = @ + 1]
                     /\ UNCHANGED lock
                  \/ /\ SupReturn(c, Err("spawn server"))
                     /\ srv' = rest
                     /\ sup' = seen
                     /\ UNCHANGED <<handle, old>>
             ELSE /\ SupReturn(c, Ok(r.text))
                  /\ srv' = rest
                  /\ sup' = seen
                  /\ UNCHANGED <<handle, old>>
    /\ last' = NoLast
    /\ UNCHANGED <<tray, event, workerVars, fileVars>>

\* --------------------------------------------------------------- warm-up
\* what a command of lib.rs returned and what it did on the way (history)
CommandReturn(op, r, did) ==
    last' = [NoLast EXCEPT !.who = "command", !.op = op, !.ret = r, !.did = did]

\* set_active_model (the command of lib.rs): the configuration is changed, then
\* saved; only when the save succeeded is the warm-up task spawned.
\* (slots: the tasks of the runtime that can run the warm-up)
SetActiveModelBy(id, slots) ==
    /\ UNCHANGED libVars
    /\ UNCHANGED procVars
    /\ cfg' = [cfg EXCEPT !.active_model = id, !.preferred_model = id]
    /\ \/ \E w \in slots :
             /\ pc[w] = "idle"
             /\ pc' = [pc EXCEPT ![w] = "pre_begin"]
             /\ CommandReturn("set_active_model", Ok(""), <<"spawn_preload">>)
       \/ /\ UNCHANGED pc
          /\ CommandReturn("set_active_model", Err("write config"), <<>>)
    /\ UNCHANGED <<loc, tray, event, modelValid, workerVars, supVars>>

SetActiveModel(id) == SetActiveModelBy(id, Warmups)

\* delete_model (the command of lib.rs, AppState::delete_model): the file is
\* removed; if the model was the active one the active model becomes the
\* preferred one if installed, else "base" if installed, else "none", and the
\* configuration is saved. The command spawns no task.
DeleteModel(id) ==
    /\ UNCHANGED libVars
    /\ UNCHANGED procVars
    /\ modelValid' = [modelValid EXCEPT ![id] = FALSE]
    /\ cfg' = IF cfg.active_model # id THEN cfg
              ELSE [cfg EXCEPT !.active_model =
                       IF modelValid'[cfg.preferred_model] THEN cfg.preferred_model
                       ELSE IF modelValid'["base"] THEN "base"
                       ELSE "none"]
    /\ \/ CommandReturn("delete_model", Ok(""), <<>>)
       \/ /\ cfg.active_model = id
          /\ CommandReturn("delete_model", Err("write config"), <<>>)
    /\ UNCHANGED <<orchVars, workerVars, supVars>>

\* preload_transcribe_server up to the validity check of the model
PreloadBegin(w) ==
    /\ UNCHANGED libVars
    /\ UNCHANGED procVars
    /\ pc[w] = "pre_begin"
    /\ LET model_id == cfg.active_model IN
       IF model_id = "none"
          THEN Return(w, "preload", Ok(""), <<>>)
          ELSE IF ~KnownModel(model_id)
                  THEN Return(w, "preload", Err("unknown model"), <<>>)
                  ELSE /\ loc' = [loc EXCEPT ![w].model = model_id]
                       /\ pc' = [pc EXCEPT ![w] =
                                   IF NeedsDownload(modelValid[model_id])
                                      THEN "pre_download" ELSE "pre_lock"]
                       /\ last' = NoLast
                       /\ UNCHANGED sup
    /\ UNCHANGED <<tray, event, workerVars, fileVars, lock, handle, srv>>

PreloadDownload(w) ==
    /\ UNCHANGED libVars
    /\ UNCHANGED procVars
    /\ pc[w] = "pre_download"
    /\ \/ /\ modelValid' = [modelValid EXCEPT ![loc[w].model] = TRUE]
          /\ pc' = [pc EXCEPT ![w] = "pre_lock"]
          /\ last' = NoLast
          /\ UNCHANGED <<loc, sup>>
       \/ /\ Return(w, "preload", Err("download model"), <<>>)
          /\ UNCHANGED modelValid
    /\ UNCHANGED <<tray, event, cfg, workerVars, lock, handle, srv>>

\* preload_transcribe_server under the mutex: spawn if needs_restart
PreloadSpawn(w) ==
    /\ UNCHANGED libVars
    /\ pc[w] = "pre_lock"
    /\ MutexFree(lock)
    /\ IF needs_restart(handle, loc[w].model)
          THEN \/ /\ Spawned(loc[w].model, w)
                  /\ Return(w, "preload", Ok(""), <<"spawn">>)
               \/ /\ Return(w, "preload", Err("spawn server"), <<>>)
                  /\ UNCHANGED <<handle, srv, old>>
          ELSE /\ Return(w, "preload", Ok(""), <<>>)
               /\ UNCHANGED <<handle, srv, old>>
    /\ UNCHANGED <<lock, tray, event, workerVars, fileVars>>

\* ------------------------------------------------- the server process
\* run_server takes the whole line it read as the path of the WAV file
ServerWavPath(line) == line

\* run_server loads the model. If loading fails run_if_child returns Err and
\* main goes on to eco_lib::run(): the process becomes an application instance
\* that neither reads its input nor writes its output.
ChildLoad ==
    /\ UNCHANGED libVars
    /\ UNCHANGED procVars
    /\ srv.st = "loading"
    /\ \/ srv' = [srv EXCEPT !.st = "serving"]
       \/ srv' = [srv EXCEPT !.st = "gui"]
    /\ last' = NoLast
    /\ UNCHANGED <<lock, handle, sup, orchVars, workerVars, fileVars>>

\* run_server's loop body: one line in, one line out (the transcript, or the
\* empty string when transcribe_wav_with_ctx failed).
ChildServe ==
    /\ UNCHANGED libVars
    /\ UNCHANGED procVars
    /\ srv.st = "serving"
    /\ srv.in # <<>>
    /\ \E text \in Transcripts :
          srv' = [srv EXCEPT !.in = Tail(@),
                     !.out = Append(@, [text |-> text, to |-> Head(srv.in),
                                        opened |-> ServerWavPath(Head(srv.in))])]
    /\ last' = NoLast
    /\ UNCHANGED <<lock, handle, sup, orchVars, workerVars, fileVars>>

\* the process is killed, crashes in the engine, or (as an application
\* instance) is quit: unread input is lost, written output stays readable
ChildDie ==
    /\ UNCHANGED libVars
    /\ UNCHANGED procVars
    /\ srv.st \in {"loading", "serving", "gui"}
    /\ srv' = [srv EXCEPT !.st = "exited", !.in = <<>>]
    /\ last' = NoLast
    /\ UNCHANGED <<lock, handle, sup, orchVars, workerVars, fileVars>>

\* ------------------------------------------------------ the specifications
\* AppState::new and run's setup: nothing records, the tray is Idle, no server
\* runs yet and the warm-up task has been spawned.
InitPipeline ==
    /\ cmdq = <<>>
    /\ recorder = NoRecorder
    /\ recording = FALSE
    /\ reply = [t \in Tasks |-> NoReply]
    /\ opens = 0
    /\ pc = [c \in Callers |-> IF c \in Warmups THEN "pre_begin" ELSE "idle"]
    /\ loc = [c \in Callers |-> NoLoc]
    /\ tray = "Idle"
    /\ event = StatusEvent(None, None)
    /\ lock = "free"
    /\ handle = NoHandle
    /\ srv = NoProc
    /\ sup = [c \in Callers |-> NoSup]
    /\ last = NoLast

InitProcs == old = NoOld

InitState ==
    /\ InitPipeline
    /\ InitProcs
    /\ unit = NoUnit

\* The pipeline under the configuration of AppConfig::default (active and
\* preferred model "base", language "en"), the model file present or not.
Init ==
    /\ InitState
    /\ modelValid \in {[m \in Models |-> TRUE], [m \in Models |-> m # "base"]}
    /\ cfg = [active_model |-> "base", preferred_model |-> "base", language |-> "en",
              free_transcriptions_left |-> FreeInit]

Next ==
    \/ WorkerStart
    \/ WorkerStop
    \/ AudioCallback
    \/ \E t \in Tasks : Toggle(t)
    \/ \E t \in Tasks : StartRecording(t)
    \/ \E t \in Tasks : StartSetMode(t)
    \/ \E t \in Tasks : StopRecording(t)
    \/ \E t \in Tasks : StopReceive(t)
    \/ \E t \in Tasks : StopDownload(t)
    \/ \E t \in Tasks : TranscribeBegin(t)
    \/ \E t \in Tasks : TranscribeWrite(t)
    \/ \E t \in Tasks : TranscribeRead(t)
    \/ \E t \in Tasks : StopResult(t)
    \/ \E w \in Warmups : PreloadBegin(w)
    \/ \E w \in Warmups : PreloadDownload(w)
    \/ \E w \in Warmups : PreloadSpawn(w)
    \/ ChildLoad
    \/ ChildServe
    \/ ChildDie

Spec == Init /\ [][Next]_vars

\* The supervisor with its callers: transcribe_with_server is called for the
\* active model while the active model is changed; the model files are
\* installed and the capture worker stays idle.
InitSup ==
    /\ InitState
    /\ modelValid = [m \in Models |-> TRUE]
    /\ \E m \in Models :
          cfg = [active_model |-> m, preferred_model |-> m, language |-> "en",
                 free_transcriptions_left |-> FreeInit]

\* stop_recording's  spawn_blocking(move || transcribe_with_server(..))  with the
\* arguments it has computed: the active model (one of MODEL_LIST), the
\* language of the configuration, the temp WAV
CallTranscribe(t) ==
    /\ UNCHANGED libVars
    /\ UNCHANGED procVars
    /\ pc[t] = "idle"
    /\ KnownModel(cfg.active_model)
    /\ loc' = [loc EXCEPT ![t].model = cfg.active_model, ![t].lang = cfg.language,
                          ![t].wav = TempWav(t)]
    /\ pc' = [pc EXCEPT ![t] = "sup_lock"]
    /\ last' = NoLast
    /\ UNCHANGED <<tray, event, workerVars, fileVars, supVars>>

\* the caller takes the result of transcribe_with_server
TranscribeReturn(t) ==
    /\ UNCHANGED libVars
    /\ UNCHANGED procVars
    /\ pc[t] = "stop_result"
    /\ Return(t, "transcribe", loc[t].res, <<>>)
    /\ UNCHANGED <<tray, event, workerVars, fileVars, lock, handle, srv>>

NextSup ==
    \/ \E t \in Tasks : CallTranscribe(t)
    \/ \E t \in Tasks : TranscribeBegin(t)
    \/ \E t \in Tasks : TranscribeWrite(t)
    \/ \E t \in Tasks : TranscribeRead(t)
    \/ \E t \in Tasks : TranscribeReturn(t)
    \/ \E id \in ModelIds : SetActiveModel(id)
    \/ \E w \in Warmups : PreloadBegin(w)
    \/ \E w \in Warmups : PreloadSpawn(w)
    \/ ChildLoad
    \/ ChildServe
    \/ ChildDie

SpecSup == InitSup /\ [][NextSup]_vars

\* The model commands with the warm-up they start: models are selected and
\* deleted while the warm-up task and the child run; no recording is made.
InitModels ==
    /\ InitState
    /\ modelValid \in [Models -> BOOLEAN]
    /\ cfg = [active_model |-> "base", preferred_model |-> "base", language |-> "en",
              free_transcriptions_left |-> FreeInit]

NextModels ==
    \/ \E id \in Models : SetActiveModel(id)
    \/ \E id \in Models : DeleteModel(id)
    \/ \E w \in Warmups : PreloadBegin(w)
    \/ \E w \in Warmups : PreloadDownload(w)
    \/ \E w \in Warmups : PreloadSpawn(w)
    \/ ChildLoad
    \/ ChildDie

SpecModels == InitModels /\ [][NextModels]_vars

\* resample_to_16k on its own: applied once and once more to its own result,
\* for every short buffer of device samples and for buffers given by their
\* length (among them two seconds of audio at 44100 Hz).
MaxLen == 3
SampleValues == {0, 1}
ResampleRates == {8000, 16000, 32000, 44100, 48000}
Lengths == (0..64) \cup {32000, 90518}

RECURSIVE SamplesUpTo(_)
SamplesUpTo(n) ==
    IF n = 0 THEN {<<>>}
    ELSE LET shorter == SamplesUpTo(n - 1)
         IN shorter \cup {Append(b, <<v>>) : b \in {x \in shorter : Len(x) = n - 1},
                                             v \in SampleValues}

\* the configuration and the model files of a fresh installation
InitFiles ==
    /\ modelValid = [m \in Models |-> FALSE]
    /\ cfg = [active_model |-> "base", preferred_model |-> "base", language |-> "en",
              free_transcriptions_left |-> FreeInit]

InitResample ==
    /\ InitPipeline
    /\ InitProcs
    /\ InitFiles
    /\ unit \in
         {[fn |-> "resample_to_16k", of |-> "samples", outs |-> <<>>,
           arg |-> [samples |-> b, sample_rate |-> r]] :
              b \in SamplesUpTo(MaxLen), r \in ResampleRates}
         \cup
         {[fn |-> "resample_to_16k", of |-> "length", outs |-> <<>>,
           arg |-> AudioBuffer(n, r)] : n \in Lengths, r \in ResampleRates}

\* the value the next application takes: the argument, then the last result
Current(u) == IF u.outs = <<>> THEN u.arg ELSE u.outs[Len(u.outs)]

Resample ==
    /\ unit.fn = "resample_to_16k"
    /\ Len(unit.outs) < 2
    /\ unit' = [unit EXCEPT !.outs =
                   Append(@, IF unit.of = "samples"
                                THEN resample_to_16k_samples(Current(unit))
                                ELSE resample_to_16k(Current(unit)))]
    /\ UNCHANGED <<workerVars, orchVars, fileVars, supVars, procVars, last>>

SpecResample == InitResample /\ [][Resample]_vars

\* write_temp_wav on its own, for every buffer of up to MaxWav samples drawn
\* from: 0, 0.25, 0.5, 1, 1.5, 3, 1 - 2^-24, 2^-30, 8403200 / 2^24 (whose
\* product with 32767, 16411.99913, is the f32 16412.0), their negatives, the
\* infinities and NaN.
MaxWav == 2
WavMagnitudes ==
    {<<0, 0>>, <<Pow2(23), 25>>, <<Pow2(23), 24>>, <<Pow2(23), 23>>,
     <<3 * Pow2(22), 23>>, <<3 * Pow2(22), 22>>, <<Pow2(24) - 1, 24>>,
     <<Pow2(23), 53>>, <<8403200, 24>>}
WavSamples ==
    {F32Num(sign, x[1], x[2]) : sign \in {1, 0 - 1}, x \in WavMagnitudes}
        \cup {F32Inf(1), F32Inf(0 - 1), F32NaN}

RECURSIVE WavBuffers(_)
WavBuffers(n) ==
    IF n = 0 THEN {<<>>}
    ELSE LET shorter == WavBuffers(n - 1)
         IN shorter \cup {Append(b, v) : b \in {x \in shorter : Len(x) = n - 1},
                                         v \in WavSamples}

InitWav ==
    /\ InitPipeline
    /\ InitProcs
    /\ InitFiles
    /\ unit \in {[fn |-> "write_temp_wav", arg |-> b, outs |-> <<>>] :
                    b \in WavBuffers(MaxWav)}

WriteTempWav ==
    /\ unit.fn = "write_temp_wav"
    /\ unit.outs = <<>>
    /\ \E io_ok \in BOOLEAN :
          unit' = [unit EXCEPT !.outs = <<write_temp_wav(unit.arg, io_ok)>>]
    /\ UNCHANGED <<workerVars, orchVars, fileVars, supVars, procVars, last>>

SpecWav == InitWav /\ [][WriteTempWav]_vars

\* The license functions on their own: a configuration as it may have been
\* loaded, license files under two paths, the trusted keys and the MAC address
\* of the device; licenses are imported, re-validated and cleared.
GoodPayload ==
    [issuer |-> DEFAULT_LICENSE_ISSUER, complete |-> TRUE, expires_at |-> None,
     mac_address |-> "aa:bb:cc:dd:ee:01"]
GoodLicense ==
    [readable |-> TRUE, container |-> TRUE, version |-> "1",
     algorithm |-> "RSA-SHA256", kid |-> "1", payload_parses |-> TRUE,
     signed_by |-> "k1", payload |-> GoodPayload]
\* no file, or one that cannot be read
Unreadable == [GoodLicense EXCEPT !.readable = FALSE]
\* {"version": 1, "alg": "RS256", "payload": "abc", "signature": "def"}
OldFormat == [GoodLicense EXCEPT !.container = FALSE]
LicenseFiles ==
    {GoodLicense, Unreadable, OldFormat,
     [GoodLicense EXCEPT !.version = "2"],
     [GoodLicense EXCEPT !.algorithm = "RS256"],
     [GoodLicense EXCEPT !.kid = "2"],
     [GoodLicense EXCEPT !.payload_parses = FALSE],
     [GoodLicense EXCEPT !.signed_by = "k2"],
     [GoodLicense EXCEPT !.payload.issuer = "other"],
     [GoodLicense EXCEPT !.payload.complete = FALSE],
     [GoodLicense EXCEPT !.payload.expires_at = ""],
     [GoodLicense EXCEPT !.payload.expires_at = "2030-01-01"],
     [GoodLicense EXCEPT !.payload.mac_address = "AA-BB-CC-DD-EE-01"],
     [GoodLicense EXCEPT !.payload.mac_address = "00:00:00:00:00:00"],
     [GoodLicense EXCEPT !.payload.mac_address = "Unknown"],
     [GoodLicense EXCEPT !.payload.mac_address = "aa:bb"]}
DeviceMacs == {"aa:bb:cc:dd:ee:01", "unknown"}
ImportPaths == {"", " ", "a.wdlic", " a.wdlic ", "b.wdlic", "c.wdlic"}
NoLicenseRet ==
    [op |-> None, arg |-> None, before |-> LicenseConfig(None, None, None),
     res |-> NoRet, message |-> None, promoted |-> FALSE]

InitLicense ==
    /\ InitPipeline
    /\ InitProcs
    /\ InitFiles
    /\ \E a \in LicenseFiles, b \in {GoodLicense, Unreadable},
          keys \in {{}, {"k1"}}, mac \in DeviceMacs,
          entitlement \in {"free", "pro", "gold"},
          license_status \in {"none", "valid", "expired"},
          path \in {None, " ", "a.wdlic"} :
            unit = [fn |-> "licensing",
                    files |-> [f \in {"a.wdlic", "b.wdlic"} |->
                                  IF f = "a.wdlic" THEN a ELSE b],
                    keys |-> keys,
                    device_mac |-> mac,
                    config |-> LicenseConfig(entitlement, license_status, path),
                    ret |-> NoLicenseRet]

\* the last call was an import_license_file that returned Ok
Promoted == unit.ret.op = "import_license_file" /\ unit.ret.res.ok

ImportLicenseFile(path) ==
    /\ unit.fn = "licensing"
    /\ LET r == import_license_file(path, unit.config, unit.files, unit.keys,
                                    DEFAULT_LICENSE_ISSUER, unit.device_mac)
       IN unit' = [unit EXCEPT !.config = r.config,
                      !.ret = [op |-> "import_license_file", arg |-> path,
                               before |-> unit.config, res |-> r.res,
                               message |-> None, promoted |-> Promoted]]
    /\ UNCHANGED <<workerVars, orchVars, fileVars, supVars, procVars, last>>

ValidateCurrentLicense ==
    /\ unit.fn = "licensing"
    /\ LET r == validate_current_license(unit.config, unit.files, unit.keys,
                                         DEFAULT_LICENSE_ISSUER, unit.device_mac)
       IN unit' = [unit EXCEPT !.config = r.config,
                      !.ret = [op |-> "validate_current_license", arg |-> None,
                               before |-> unit.config, res |-> r.res,
                               message |-> r.message, promoted |-> Promoted]]
    /\ UNCHANGED <<workerVars, orchVars, fileVars, supVars, procVars, last>>

ClearLicense ==
    /\ unit.fn = "licensing"
    /\ unit' = [unit EXCEPT !.config = clear_license(unit.config),
                   !.ret = [op |-> "clear_license", arg |-> None,
                            before |-> unit.config, res |-> Ok(""),
                            message |-> None, promoted |-> Promoted]]
    /\ UNCHANGED <<workerVars, orchVars, fileVars, supVars, procVars, last>>

NextLicense ==
    \/ \E path \in ImportPaths : ImportLicenseFile(path)
    \/ ValidateCurrentLicense
    \/ ClearLicense

SpecLicense == InitLicense /\ [][NextLicense]_vars

\* Recorder (audio.rs) on its own: the callback of the input stream appends
\* its chunks to the shared Vec under the mutex, frame by frame, while stop
\* drops the stream and clones the Vec. The backend calls the callback on one
\* thread, one chunk after the other; a callback that was already called when
\* the stream is dropped may still run.
MaxChunks == 2
MaxChunkLen == 4
ChunkValues == {0, 2}
Channels == {1, 2}

RECURSIVE ChunksUpTo(_)
ChunksUpTo(n) ==
    IF n = 0 THEN {<<>>}
    ELSE LET shorter == ChunksUpTo(n - 1)
         IN shorter \cup {Append(b, v) : b \in {x \in shorter : Len(x) = n - 1},
                                         v \in ChunkValues}

\* the mono frame push_samples makes of the samples at idx .. idx + channels - 1
\* (counted from 0): the sample itself, or the mean of the channels
MonoFrame(data, idx, channels) ==
    IF channels = 1 THEN data[idx + 1]
    ELSE (data[idx + 1] + data[idx + 2]) \div channels

\* all mono frames of a chunk: a trailing incomplete frame is left out
MonoFrames(data, channels) ==
    [i \in 1..(Len(data) \div channels) |-> MonoFrame(data, (i - 1) * channels, channels)]

NoCallback == [on |-> FALSE, data |-> <<>>, idx |-> 0]
NoSnapshot == [taken |-> FALSE, samples |-> <<>>]

InitRecorder ==
    /\ InitPipeline
    /\ InitProcs
    /\ InitFiles
    /\ \E channels \in Channels :
          unit = [fn |-> "recorder", channels |-> channels, stream |-> "playing",
                  samples |-> <<>>, lock |-> "free", cb |-> NoCallback,
                  arrived |-> <<>>, returned |-> 0, stop |-> "idle",
                  before_stop |-> 0, snapshot |-> NoSnapshot]

\* A buffer whose mutex never excludes anyone: "no chunk is split" must not
\* survive it.
BufferLockAlwaysFree(l) == TRUE

\* buffer.lock(): the Mutex<Vec<f32>> is free
BufferLockFree(l) == l = "free"

\* the backend calls the data callback with a chunk
CallbackArrive(data) ==
    /\ unit.fn = "recorder"
    /\ unit.stream = "playing"
    /\ ~unit.cb.on
    /\ Len(unit.arrived) < MaxChunks
    /\ unit' = [unit EXCEPT !.cb = [on |-> TRUE, data |-> data, idx |-> 0 - 1],
                   !.arrived = Append(@, MonoFrames(data, unit.channels))]
    /\ UNCHANGED <<workerVars, orchVars, fileVars, supVars, procVars, last>>

\* push_samples: let mut guard = buffer.lock().unwrap();
CallbackLock ==
    /\ unit.fn = "recorder"
    /\ unit.cb.on /\ unit.cb.idx = 0 - 1
    /\ BufferLockFree(unit.lock)
    /\ unit' = [unit EXCEPT !.lock = "callback", !.cb.idx = 0]
    /\ UNCHANGED <<workerVars, orchVars, fileVars, supVars, procVars, last>>

\* push_samples: one frame is pushed (an element of extend, or one turn of the
\* while loop)
CallbackPush ==
    /\ unit.fn = "recorder"
    /\ unit.cb.on /\ unit.cb.idx >= 0
    /\ unit.cb.idx + unit.channels <= Len(unit.cb.data)
    /\ unit' = [unit EXCEPT
                   !.samples = Append(@, MonoFrame(unit.cb.data, unit.cb.idx,
                                                   unit.channels)),
                   !.cb.idx = @ + unit.channels]
    /\ UNCHANGED <<workerVars, orchVars, fileVars, supVars, procVars, last>>

\* push_samples returns: the guard is dropped
CallbackReturn ==
    /\ unit.fn = "recorder"
    /\ unit.cb.on /\ unit.cb.idx >= 0
    /\ unit.cb.idx + unit.channels > Len(unit.cb.data)
    /\ unit' = [unit EXCEPT !.lock = "free", !.cb = NoCallback,
                   !.returned = @ + 1]
    /\ UNCHANGED <<workerVars, orchVars, fileVars, supVars, procVars, last>>

\* Recorder::stop: drop(self.stream)
StopDropStream ==
    /\ unit.fn = "recorder"
    /\ unit.stop = "idle"
    /\ unit' = [unit EXCEPT !.stream = "dropped", !.stop = "dropped",
                   !.before_stop = unit.returned]
    /\ UNCHANGED <<workerVars, orchVars, fileVars, supVars, procVars, last>>

\* Recorder::stop: self.samples.lock().unwrap().clone()
StopSnapshot ==
    /\ unit.fn = "recorder"
    /\ unit.stop = "dropped"
    /\ BufferLockFree(unit.lock)
    /\ unit' = [unit EXCEPT !.stop = "done",
                   !.snapshot = [taken |-> TRUE, samples |-> unit.samples]]
    /\ UNCHANGED <<workerVars, orchVars, fileVars, supVars, procVars, last>>

NextRecorder ==
    \/ \E data \in ChunksUpTo(MaxChunkLen) \ {<<>>} : CallbackArrive(data)
    \/ CallbackLock
    \/ CallbackPush
    \/ CallbackReturn
    \/ StopDropStream
    \/ StopSnapshot

SpecRecorder == InitRecorder /\ [][NextRecorder]_vars

\* The supervisor and every process it has spawned: the active model is
\* changed, warm-ups run and one caller transcribes, while the processes whose
\* handle was dropped are followed until they exit.
MaxOld == 2
ServerCaller == "ui"

InitServers ==
    /\ InitPipeline
    /\ unit = NoUnit
    /\ old = [NoOld EXCEPT !.watch = TRUE]
    /\ modelValid = [m \in Models |-> TRUE]
    /\ cfg = [active_model |-> "base", preferred_model |-> "base", language |-> "en",
              free_transcriptions_left |-> FreeInit]

Without(procs, i) == SubSeq(procs, 1, i - 1) \o SubSeq(procs, i + 1, Len(procs))

\* a dropped process finishes loading its model, or fails and goes on to
\* eco_lib::run() as in ChildLoad
OldLoad ==
    /\ \E i \in 1..Len(old.procs) :
          /\ old.procs[i] = "loading"
          /\ \E st \in {"serving", "gui"} : old' = [old EXCEPT !.procs[i] = st]
    /\ UNCHANGED <<workerVars, orchVars, fileVars, supVars, libVars, last>>

\* a dropped process in run_server's loop: stdin.lock().lines() ends, since
\* the supervisor's end of the pipe is closed; run_server returns Ok, run_child
\* Ok(true) and main returns
OldExit ==
    /\ \E i \in 1..Len(old.procs) :
          /\ old.procs[i] = "serving"
          /\ old' = [old EXCEPT !.procs = Without(@, i)]
    /\ UNCHANGED <<workerVars, orchVars, fileVars, supVars, libVars, last>>

\* a dropped process is killed, crashes, or (as an application instance) is
\* quit by the user
OldDie ==
    /\ \E i \in 1..Len(old.procs) : old' = [old EXCEPT !.procs = Without(@, i)]
    /\ UNCHANGED <<workerVars, orchVars, fileVars, supVars, libVars, last>>

\* the user changes the model, or dictates, while few dropped processes run
SelectModel(id) == Len(old.procs) < MaxOld /\ SetActiveModel(id)
Dictate(t) == Len(old.procs) < MaxOld /\ CallTranscribe(t)

NextServers ==
    \/ \E id \in Models : SelectModel(id)
    \/ Dictate(ServerCaller)
    \/ TranscribeBegin(ServerCaller)
    \/ TranscribeWrite(ServerCaller)
    \/ TranscribeRead(ServerCaller)
    \/ TranscribeReturn(ServerCaller)
    \/ \E w \in Warmups : PreloadBegin(w)
    \/ \E w \in Warmups : PreloadSpawn(w)
    \/ ChildLoad
    \/ ChildServe
    \/ ChildDie
    \/ OldLoad
    \/ OldExit
    \/ OldDie

\* every process runs on its own; none is made to crash or to be quit
FairServers ==
    /\ WF_vars(ChildLoad)
    /\ WF_vars(ChildServe)
    /\ WF_vars(OldLoad)
    /\ WF_vars(OldExit)

SpecServers == InitServers /\ [][NextServers]_vars /\ FairServers

\* Warm-ups side by side: every set_active_model spawns its own warm-up task
\* (any task of the runtime), each waits for its own download, and nothing
\* fails: the configuration is saved, the downloads arrive, the servers spawn.
InitWarm ==
    /\ InitState
    /\ modelValid \in [Models -> BOOLEAN]
    /\ cfg = [active_model |-> "base", preferred_model |-> "base", language |-> "en",
              free_transcriptions_left |-> FreeInit]

WarmSelect(id) == SetActiveModelBy(id, Callers) /\ last'.ret.ok
WarmDownload(c) == PreloadDownload(c) /\ pc'[c] = "pre_lock"
WarmSpawn(c) == PreloadSpawn(c) /\ last'.ret.ok

NextWarm ==
    \/ \E id \in Models : WarmSelect(id)
    \/ \E c \in Callers : PreloadBegin(c)
    \/ \E c \in Callers : WarmDownload(c)
    \/ \E c \in Callers : WarmSpawn(c)
    \/ ChildLoad
    \/ ChildDie

SpecWarm == InitWarm /\ [][NextWarm]_vars

\* One user toggling through the UI command, each toggle after the previous
\* one has returned. The worker thread handles every command it is sent, the
\* async tasks and the blocking task run on, a server process loads and serves
\* while it lives; the user may stop toggling, samples may stop coming and a
\* process ends only if it is killed, crashes or is quit.
OneTask == "ui"

NextOne ==
    \/ WorkerStart
    \/ WorkerStop
    \/ AudioCallback
    \/ Toggle(OneTask)
    \/ StartRecording(OneTask)
    \/ StartSetMode(OneTask)
    \/ StopRecording(OneTask)
    \/ StopReceive(OneTask)
    \/ StopDownload(OneTask)
    \/ TranscribeBegin(OneTask)
    \/ TranscribeWrite(OneTask)
    \/ TranscribeRead(OneTask)
    \/ StopResult(OneTask)
    \/ \E w \in Warmups : PreloadBegin(w)
    \/ \E w \in Warmups : PreloadDownload(w)
    \/ \E w \in Warmups : PreloadSpawn(w)
    \/ ChildLoad
    \/ ChildServe
    \/ ChildDie

FairOne ==
    /\ WF_vars(WorkerStart)
    /\ WF_vars(WorkerStop)
    /\ WF_vars(StartRecording(OneTask))
    /\ WF_vars(StartSetMode(OneTask))
    /\ WF_vars(StopRecording(OneTask))
    /\ WF_vars(StopReceive(OneTask))
    /\ WF_vars(StopDownload(OneTask))
    /\ WF_vars(TranscribeBegin(OneTask))
    /\ WF_vars(TranscribeWrite(OneTask))
    /\ WF_vars(TranscribeRead(OneTask))
    /\ WF_vars(StopResult(OneTask))
    /\ \A w \in Warmups : WF_vars(PreloadBegin(w))
    /\ \A w \in Warmups : WF_vars(PreloadDownload(w))
    /\ \A w \in Warmups : WF_vars(PreloadSpawn(w))
    /\ WF_vars(ChildLoad)
    /\ WF_vars(ChildServe)

SpecOne == Init /\ [][NextOne]_vars /\ FairOne

\* ------------------------------------------------------------- properties
\* a caller is inside transcribe_with_server, past the lock
InCall(c) == pc[c] \in {"sup_write", "sup_read"}
\* a read that gave no transcript: end of file or a blank line
EmptyRead(e) == e.eof \/ e.text = ""
\* the respawns among the spawns of a call
Respawns(spawns) == Cardinality({i \in 1..Len(spawns) : spawns[i] = "respawn"})

\* C1: two concurrent transcribe calls are serialized. While one call is
\* between taking the mutex and returning, it holds the mutex, no other call is
\* past the lock, and the server's pipes carry only that call's request and the
\* answers to it: the second call sends nothing until the first has returned.
C1_Serialized ==
    \A t \in Tasks : InCall(t) =>
        LET req == request_line(loc[t].lang, loc[t].wav) IN
        /\ lock = t
        /\ \A u \in Callers \ {t} : ~InCall(u)
        /\ \A i \in 1..Len(srv.in) : srv.in[i] = req
        /\ \A i \in 1..Len(srv.out) : srv.out[i].to = req

\* a second call waits at the lock while the first one's answer is in the pipe
C1_Witness ==
    \E a \in Tasks : \E b \in Tasks \ {a} :
        /\ pc[a] = "sup_read" /\ srv.out # <<>>
        /\ pc[b] = "sup_lock"

\* C2: when the first read of a call is empty (a blank line or end of file) the
\* supervisor spawns a fresh server for the same model and sends the same
\* request once more: during the retry the handle is the one this call spawned
\* for its model, exactly one respawn happened, the second line written equals
\* the first, and a non-empty second read is what the call returns. A call that
\* returns after an empty first read without a second read failed to spawn the
\* fresh server or to write to it.
C2_RetryOnce ==
    \A t \in Tasks :
        LET req == request_line(loc[t].lang, loc[t].wav)
            reads == sup[t].reads
        IN
        /\ (InCall(t) /\ Len(reads) = 1) =>
              /\ EmptyRead(reads[1])
              /\ loc[t].attempt = 2
              /\ handle = [model_id |-> loc[t].model, by |-> t]
              /\ Respawns(sup[t].spawns) = 1
              /\ sup[t].writes = IF pc[t] = "sup_write" THEN <<req>> ELSE <<req, req>>
        /\ (pc[t] = "stop_result" /\ Len(reads) = 1 /\ EmptyRead(reads[1])) =>
              loc[t].res \in {Err("spawn server"), Err("write wav path retry")}
        /\ (pc[t] = "stop_result" /\ Len(reads) = 2 /\ ~EmptyRead(reads[2])) =>
              /\ EmptyRead(reads[1])
              /\ loc[t].res = Ok(reads[2].text)
              /\ sup[t].writes = <<req, req>>
              /\ Respawns(sup[t].spawns) = 1

\* a call returned the line its retry read after a first read at end of file
C2_Witness ==
    \E t \in Tasks :
        /\ pc[t] = "stop_result"
        /\ Len(sup[t].reads) = 2
        /\ sup[t].reads[1].eof
        /\ ~EmptyRead(sup[t].reads[2])
        /\ loc[t].res = Ok("hola")
        /\ Len(sup[t].writes) = 2

\* C3: when the first read and the retry's read are both empty, the call
\* returns an error.
C3_BothEmptyIsError ==
    \A t \in Tasks :
        (/\ pc[t] = "stop_result"
         /\ Len(sup[t].reads) = 2
         /\ EmptyRead(sup[t].reads[1])
         /\ EmptyRead(sup[t].reads[2])) => ~loc[t].res.ok

\* C4: a call does at most one respawn-and-retry: it never spawns a third
\* server (one at the start, one respawn) and never sends its request more than
\* twice; the same holds of the call that has just returned.
C4_AtMostOneRetry ==
    /\ \A t \in Tasks :
          /\ Len(sup[t].spawns) <= 2
          /\ Respawns(sup[t].spawns) <= 1
          /\ Len(sup[t].writes) <= 2
          /\ Len(sup[t].reads) <= 2
    /\ Len(last.sup.spawns) <= 2
    /\ Respawns(last.sup.spawns) <= 1
    /\ Len(last.sup.writes) <= 2

\* a call returned after two spawns, two sends and two empty reads
C4_Witness ==
    /\ last.op = "transcribe"
    /\ last.sup.spawns = <<"start", "respawn">>
    /\ Len(last.sup.writes) = 2
    /\ Len(last.sup.reads) = 2
    /\ EmptyRead(last.sup.reads[2])

\* C5: at the start of a transcribe call and of a warm-up, a server is spawned
\* exactly when there is no handle or the handle's model_id differs from the
\* requested one (the spawn either installs a fresh server for the requested
\* model or fails, and then the call returns the spawn error with the handle
\* untouched); with a handle for the requested model the call keeps handle and
\* process and has spawned nothing. Neither the write nor a non-empty first
\* read spawns: a call on a matching handle that is answered with a non-empty
\* line has reused the same process with zero spawns, whoever created it.
C5_SpawnIffNeeded ==
    [][ /\ \A c \in Callers :
              (pc[c] \in {"sup_lock", "pre_lock"} /\ pc'[c] # pc[c]) =>
                  LET needed == handle = NoHandle \/ handle.model_id # loc[c].model
                      failed == IF c \in Tasks
                                   THEN loc'[c].res = Err("spawn server")
                                   ELSE last'.ret = Err("spawn server")
                  IN IF needed
                        THEN \/ /\ handle' = [model_id |-> loc[c].model, by |-> c]
                                /\ srv' = [st |-> "loading", in |-> <<>>, out |-> <<>>]
                                /\ ~failed
                                /\ c \in Tasks => sup'[c].spawns = <<"start">>
                             \/ /\ failed
                                /\ handle' = handle /\ srv' = srv
                        ELSE /\ handle' = handle /\ srv' = srv
                             /\ ~failed
                             /\ c \in Tasks => sup'[c].spawns = <<>>
        /\ \A t \in Tasks :
              (/\ InCall(t) /\ pc'[t] # pc[t]
               /\ ~(pc[t] = "sup_read" /\ EmptyRead(ReadLine(srv)))) =>
                  /\ handle' = handle
                  /\ sup'[t].spawns = sup[t].spawns
                  /\ srv'.st = srv.st
      ]_vars

\* a call for the model the warm-up's server holds returned its transcript
\* after one send and one read, with no spawn
C5_Witness ==
    /\ last.op = "transcribe"
    /\ last.ret = Ok("hola")
    /\ last.sup.spawns = <<>>
    /\ Len(last.sup.writes) = 1
    /\ Len(last.sup.reads) = 1
    /\ handle.by \in Warmups

\* C6: stop_recording called while the recording flag is false returns the
\* empty string and does nothing else: no command to the worker, no tray or
\* event change, no configuration change, nothing of the supervisor.
C6_StopWhenIdleIsNoop ==
    [][ \A t \in Tasks :
           (pc[t] = "stop" /\ pc'[t] # "stop" /\ ~recording) =>
               /\ last' = [who |-> t, op |-> "stop_recording", ret |-> Ok(""),
                           sup |-> NoSup, did |-> <<>>, wav |-> None,
                           from |-> tray, result |-> NoResult]
               /\ pc'[t] = "idle"
               /\ UNCHANGED <<cmdq, recorder, recording, reply, opens, tray, event,
                              cfg, modelValid, lock, handle, srv>>
      ]_vars

\* a stop_recording returned "" having used no collaborator, while the status
\* another task's stop had set stays Processing
C6_Witness ==
    /\ last.op = "stop_recording"
    /\ last.ret = Ok("")
    /\ last.did = <<>>
    /\ ~recording
    /\ tray = "Processing"

\* C7: Start commands with no Stop in between open the input stream only once:
\* since the worker last handled a Stop at most one stream was opened, and a
\* Start that finds a stream held is dropped with that one stream still on.
C7_SingleStream ==
    /\ opens <= 1
    /\ recorder.on => opens = 1
    /\ last.op = "start_ignored" => (recorder.on /\ opens = 1)

\* two start_recording calls both sent Start before the worker handled the
\* first; the worker dropped the second
C7_Witness ==
    /\ last.op = "start_ignored"
    /\ opens = 1
    /\ recorder.on
    /\ \A t \in Tasks : pc[t] = "start_mode"

\* C8: when the buffer is empty after resampling, stop_recording returns the
\* empty string with the tray Idle, having only set the tray: no WAV file, no
\* supervisor call, no paste, no decrement of the counter. A buffer with at
\* least one sample goes on to the model and the supervisor (or fails on the
\* way) instead of returning there.
C8_EmptyBufferShortCircuit ==
    [][ \A t \in Tasks :
           (pc[t] = "stop_wait" /\ pc'[t] # "stop_wait") =>
               LET len == IF reply[t].rate = TargetRate THEN reply[t].n
                          ELSE (reply[t].n * TargetRate) \div reply[t].rate
               IN IF len = 0
                     THEN /\ last' = [who |-> t, op |-> "stop_recording", ret |-> Ok(""),
                                      sup |-> NoSup, did |-> <<"set_mode">>, wav |-> None,
                                      from |-> tray, result |-> NoResult]
                          /\ tray' = "Idle"
                          /\ pc'[t] = "idle"
                          /\ UNCHANGED <<cfg, modelValid, lock, handle, srv, sup>>
                     ELSE \/ pc'[t] \in {"sup_lock", "stop_download"}
                          \/ last'.who = t /\ ~last'.ret.ok
      ]_vars

\* a stop_recording returned "" from the short-circuit, the tray Idle
C8_Witness ==
    /\ last.op = "stop_recording"
    /\ last.ret = Ok("")
    /\ last.did = <<"set_mode">>
    /\ tray = "Idle"
    /\ cfg.free_transcriptions_left = FreeInit

\* C9: whenever stop_recording returns an error, the tray is Error and the
\* error event with the error's message has been emitted.
C9_ErrorSetsStatus ==
    (last.op = "stop_recording" /\ ~last.ret.ok) =>
        /\ tray = "Error"
        /\ event = StatusEvent("error", last.ret.val)

\* C10: a call that finds the resident server of its model dead respawns a
\* server: a call that reused the handle (it spawned nothing at its start) ends
\* in an error only when spawning the replacement failed.
C10_DeadServerRespawned ==
    \A t \in Tasks :
        (pc[t] = "stop_result" /\ ~loc[t].res.ok /\ "start" \notin
            {sup[t].spawns[i] : i \in 1..Len(sup[t].spawns)}) =>
                loc[t].res = Err("spawn server")

\* C11: the Error status is not sticky. A toggle taken with the tray at Error
\* (the stop_recording before it ended in Error) finds the flag clear, the
\* worker's channel empty and the supervisor's mutex free, and so calls
\* start_recording; start_recording looks at the flag only: with the flag clear
\* it sends Start and then sets the tray to Recording with its event, and from
\* Error the tray does become Recording; the stop path of the following toggle
\* sets Processing and sends Stop as always.
C11_ErrorNotSticky ==
    /\ [][ \A t \in Tasks :
             /\ (tray = "Error" /\ pc[t] = "idle" /\ pc'[t] # "idle") =>
                   /\ ~recording /\ cmdq = <<>> /\ lock = "free" /\ ~reply[t].full
                   /\ pc'[t] = "start"
             /\ (pc[t] = "start" /\ pc'[t] # "start") =>
                   IF recording
                      THEN pc'[t] = "idle" /\ last'.ret = Ok("") /\ cmdq' = cmdq
                      ELSE pc'[t] = "start_mode" /\ cmdq' = Append(cmdq, StartCmd)
             /\ (pc[t] = "start_mode" /\ pc'[t] # "start_mode") =>
                   /\ tray' = "Recording"
                   /\ event' = StatusEvent("recording", None)
                   /\ last'.ret = Ok("")
             /\ (pc[t] = "stop" /\ pc'[t] # "stop" /\ recording) =>
                   /\ tray' = "Processing"
                   /\ cmdq' = Append(cmdq, StopCmd(t))
                   /\ pc'[t] = "stop_wait"
         ]_vars
    /\ \A t \in Tasks : (tray = "Error" /\ pc[t] = "start") ~> (tray = "Recording")

\* a start_recording that began with the tray at Error has set it to Recording
C11_Witness ==
    /\ last.op = "start_recording"
    /\ last.from = "Error"
    /\ last.did = <<"set_mode", "emit_status">>
    /\ tray = "Recording"

\* C12: a start() whose device acquisition fails returns an error and leaves
\* the flag false. start() therefore returns Ok to start_recording (which then
\* goes on to set the tray) only with the stream open and the flag set, and the
\* flag is never set without a stream.
C12_StartReportsDevice ==
    [][ /\ \A t \in Tasks :
              (pc[t] = "start" /\ pc'[t] = "start_mode") => (recorder'.on /\ recording')
        /\ recording' => recorder'.on
      ]_vars

\* the worker failed to open the device after start_recording had returned Ok
\* and announced Recording; the flag is false
C12_Failure ==
    /\ last.op = "start_failed"
    /\ tray = "Recording"
    /\ event = StatusEvent("recording", None)
    /\ ~recording
    /\ \A t \in Tasks : pc[t] = "idle"

\* C13: every change of the status follows an edge of the state machine:
\* Idle to Recording, Recording to Processing, Processing to Idle, Processing
\* to Error, Error to Idle, and Error to Recording for a new recording; in
\* particular never Recording to Idle and never Processing to Recording.
C13_StatusEdges ==
    [][ tray' # tray =>
           <<tray, tray'>> \in {<<"Idle", "Recording">>, <<"Recording", "Processing">>,
                                <<"Processing", "Idle">>, <<"Processing", "Error">>,
                                <<"Error", "Idle">>, <<"Error", "Recording">>}
      ]_vars

\* while one task's stop_recording waits for the supervisor (status
\* Processing), the other task's start_recording has set the status to Recording
C13_ProcessingToRecording ==
    /\ last.op = "start_recording"
    /\ last.from = "Processing"
    /\ tray = "Recording"
    /\ \E u \in Tasks \ {last.who} : pc[u] \in {"sup_lock", "sup_write", "sup_read"}

\* the calls of a returning step, as a set
Did(calls) == {calls[i] : i \in 1..Len(calls)}

\* C14 as stated: whenever the supervisor returned success, stop_recording
\* hands the text to the paste collaborator, decrements the usage counter,
\* emits the result event with the text and the model id, and ends with the
\* tray Idle and the idle event.
C14_SuccessDelivers ==
    [][ \A t \in Tasks :
           (pc[t] = "stop_result" /\ loc[t].res.ok /\ pc'[t] # pc[t]) =>
               /\ Did(last'.did) \cap {"paste", "paste_failed"} # {}
               /\ "decrement" \in Did(last'.did)
               /\ cfg'.free_transcriptions_left = cfg.free_transcriptions_left - 1
               /\ last'.result = TranscriptionEvent(loc[t].res.val, loc[t].model)
               /\ tray' = "Idle"
               /\ event' = StatusEvent("idle", None)
      ]_vars

\* C14, amended: whenever the supervisor returned success, stop_recording
\* emits the result event with the text and the model id, returns the text and
\* ends with the tray Idle and the idle event; a non-empty text is handed to
\* the paste collaborator and the usage counter is decremented unless it is
\* already 0; an empty text is neither pasted nor counted.
C14_SuccessDeliversText ==
    [][ \A t \in Tasks :
           (pc[t] = "stop_result" /\ loc[t].res.ok /\ pc'[t] # pc[t]) =>
               LET text == loc[t].res.val
                   left == cfg.free_transcriptions_left
               IN /\ last'.result = TranscriptionEvent(text, loc[t].model)
                  /\ "emit_result" \in Did(last'.did)
                  /\ last'.ret = Ok(text)
                  /\ tray' = "Idle"
                  /\ event' = StatusEvent("idle", None)
                  /\ IF text # ""
                        THEN /\ Did(last'.did) \cap {"paste", "paste_failed"} # {}
                             /\ "decrement" \in Did(last'.did)
                             /\ cfg' = [cfg EXCEPT !.free_transcriptions_left =
                                           IF left > 0 THEN left - 1 ELSE 0]
                        ELSE /\ Did(last'.did) \cap {"paste", "paste_failed", "decrement"} = {}
                             /\ cfg' = cfg
      ]_vars

\* a transcript was pasted and counted, its result event emitted, the tray Idle
C14_Witness ==
    /\ last.op = "stop_recording"
    /\ last.ret = Ok("hola")
    /\ "paste" \in Did(last.did)
    /\ last.result = TranscriptionEvent("hola", "base")
    /\ cfg.free_transcriptions_left = FreeInit - 1
    /\ tray = "Idle"
    /\ event = StatusEvent("idle", None)

\* C15: a stop_recording removes its temp WAV file exactly when it wrote one
\* and the supervisor returned success, and the removal is its first call
\* after the supervisor's answer: before the paste and before the result
\* event. A request that fails after writing the file leaves it in place.
C15_WavRemovedOnSuccess ==
    last.op = "stop_recording" =>
        /\ ("remove_wav" \in Did(last.did)) <=> (last.wav # None /\ last.ret.ok)
        /\ "remove_wav" \in Did(last.did) =>
              /\ last.did[1] = "remove_wav"
              /\ \A i \in 1..Len(last.did) :
                    last.did[i] \in {"remove_wav", "paste", "paste_failed", "emit_result"}
                        => (i = 1 <=> last.did[i] = "remove_wav")
        /\ (last.wav # None /\ ~last.ret.ok) =>
              last.did = <<"set_mode", "emit_status">>

\* the file of a request was removed, then its text pasted and its event sent
C15_Witness ==
    /\ last.op = "stop_recording"
    /\ last.wav = TempWav(last.who)
    /\ last.ret = Ok("hola")
    /\ last.did = <<"remove_wav", "paste", "decrement", "emit_result", "set_mode",
                    "emit_status">>

\* C16: a failure of the paste collaborator does not fail the request: the
\* stop_recording whose paste failed still emits the result event with the
\* supervisor's text and the model id, still counts the transcription, returns
\* the text as success and ends with the tray Idle and the idle event.
C16_PasteFailureSwallowed ==
    [][ \A t \in Tasks :
           (/\ pc[t] = "stop_result" /\ pc'[t] # pc[t]
            /\ "paste_failed" \in Did(last'.did)) =>
               /\ loc[t].res.ok /\ loc[t].res.val # ""
               /\ last'.ret = Ok(loc[t].res.val)
               /\ last'.result = TranscriptionEvent(loc[t].res.val, loc[t].model)
               /\ "emit_result" \in Did(last'.did)
               /\ "decrement" \in Did(last'.did)
               /\ tray' = "Idle"
               /\ event' = StatusEvent("idle", None)
      ]_vars

\* a stop_recording whose paste failed returned its text, the tray Idle
C16_Witness ==
    /\ last.op = "stop_recording"
    /\ "paste_failed" \in Did(last.did)
    /\ last.ret = Ok("hola")
    /\ last.result = TranscriptionEvent("hola", "base")
    /\ tray = "Idle"

C18_StopCompletes ==
    \A t \in Tasks : (pc[t] = "stop") ~> (pc[t] = "idle")

\* stop_recording waits in read_line for a child that failed to load its model
\* and went on to run as an application instance: it neither answers nor exits
C18_Hang ==
    \E t \in Tasks :
        /\ pc[t] = "sup_read"
        /\ lock = t
        /\ srv.st = "gui"
        /\ srv.out = <<>>
        /\ tray = "Processing"

\* C19: the WAV path the server opens for a request is exactly the wav_path
\* transcribe_with_server was called with (a path is a line of one field).
C19_ServerOpensWavPath ==
    \A c \in Tasks :
        (lock = c /\ pc[c] = "sup_read") =>
            \A i \in DOMAIN srv.out : srv.out[i].opened = <<loc[c].wav>>

\* the server has answered the caller's request after opening the whole
\* request line, language and tab included, as the path
C19_OpensWholeLine ==
    \E c \in Tasks :
        /\ lock = c
        /\ pc[c] = "sup_read"
        /\ srv.out # <<>>
        /\ Head(srv.out).to = request_line(loc[c].lang, loc[c].wav)
        /\ Head(srv.out).opened = <<loc[c].lang, loc[c].wav>>

\* C20: an empty or missing line is received by the supervisor only when the
\* server process has died.
C20_EmptyLineMeansDeath ==
    \A c \in Tasks :
        (lock = c /\ pc[c] = "sup_read" /\ CanRead(srv) /\ EmptyRead(ReadLine(srv)))
            => srv.st = "exited"

\* the supervisor is about to read the empty line a server wrote for its
\* request, and that server is alive and serving
C20_EmptyLineFromLiveServer ==
    \E c \in Tasks :
        /\ lock = c
        /\ pc[c] = "sup_read"
        /\ srv.st = "serving"
        /\ srv.in = <<>>
        /\ Len(srv.out) = 1
        /\ Head(srv.out).text = ""
        /\ Head(srv.out).to = request_line(loc[c].lang, loc[c].wav)

\* C21: every model command that returns Ok and makes another model of
\* MODEL_LIST the active one starts the warm-up path
\* (preload_transcribe_server).
C21_WarmupOnModelChange ==
    [][ (/\ last'.op \in {"set_active_model", "delete_model"}
         /\ last'.ret.ok
         /\ cfg'.active_model # cfg.active_model
         /\ cfg'.active_model \in Models)
        => (/\ "spawn_preload" \in Did(last'.did)
            /\ \E w \in Warmups : pc[w] = "idle" /\ pc'[w] = "pre_begin")
      ]_vars

\* delete_model has removed the active model "small" and made "base", which is
\* installed, the active model; no warm-up runs and the handle is still the
\* server of "small"
C21_DeleteWithoutWarmup ==
    /\ last.op = "delete_model"
    /\ last.ret = Ok("")
    /\ cfg.active_model = "base"
    /\ modelValid["base"]
    /\ handle.model_id = "small"
    /\ \A w \in Warmups : pc[w] = "idle"

\* C22: stop_recording and the warm-up call the download collaborator exactly
\* when the active model's file is not valid; they go on to the supervisor's
\* mutex only with a valid file or after the download succeeded; a failed
\* download ends the call with no spawn and no request; and a server is
\* spawned, and a request written, only by a call that has gone on.
C22_DownloadBeforeSpawn ==
    [][ /\ \A c \in Callers :
             LET checks == pc[c] \in {"stop_wait", "pre_begin"}
                 downloads == pc[c] \in {"stop_download", "pre_download"}
             IN /\ (checks /\ pc'[c] \in {"stop_download", "pre_download"})
                      => ~modelValid[cfg.active_model]
                /\ (checks /\ pc'[c] \in {"sup_lock", "pre_lock"})
                      => modelValid[cfg.active_model]
                /\ (downloads /\ pc'[c] \in {"sup_lock", "pre_lock"})
                      => modelValid'[loc[c].model]
                /\ (downloads /\ pc'[c] \notin {"sup_lock", "pre_lock", pc[c]})
                      => /\ last'.who = c
                         /\ \/ last'.ret = Err("download model")
                            \/ /\ last'.ret = Err("create wav")
                               /\ modelValid'[loc[c].model]
                         /\ last'.sup = NoSup
                         /\ handle' = handle
                         /\ srv' = srv
                /\ (pc'[c] \in {"sup_lock", "pre_lock"} /\ pc'[c] # pc[c])
                      => (checks \/ downloads \/ pc[c] = "idle")
                /\ (pc'[c] = "sup_write" /\ pc'[c] # pc[c])
                      => pc[c] \in {"sup_lock", "sup_read"}
        /\ (srv'.st = "loading" /\ srv'.in = <<>> /\ srv' # srv)
              => \E c \in Callers :
                    pc[c] \in {"sup_lock", "sup_read", "pre_lock"} /\ pc'[c] # pc[c]
        /\ Len(srv'.in) > Len(srv.in)
              => \E c \in Callers : pc[c] = "sup_write" /\ pc'[c] = "sup_read"
      ]_vars

\* the file of "base" was not valid when the application started; while the
\* warm-up still waits for its download, a stop_recording whose model file is
\* now installed has spawned the server and written its request
C22_Witness ==
    \E t \in Tasks :
        /\ pc[t] = "sup_read"
        /\ sup[t].spawns = <<"start">>
        /\ Len(sup[t].writes) = 1
        /\ handle = [model_id |-> "base", by |-> t]
        /\ modelValid["base"]
        /\ \A w \in Warmups : pc[w] = "pre_download"

\* C23: resample_to_16k returns a 16000 Hz buffer as it is, samples and rate,
\* and applying it twice gives what applying it once gives.
C23_ResampleIdempotent ==
    unit.fn = "resample_to_16k" =>
        /\ (unit.outs # <<>> /\ unit.of = "samples"
               /\ unit.arg.sample_rate = TargetRate) => unit.outs[1] = unit.arg
        /\ (unit.outs # <<>> /\ unit.of = "length"
               /\ unit.arg.rate = TargetRate) => unit.outs[1] = unit.arg
        /\ Len(unit.outs) = 2 => unit.outs[2] = unit.outs[1]

\* three samples of a 48000 Hz stream were resampled to one sample, and
\* resampling the result again has returned it unchanged
C23_Witness ==
    /\ unit.fn = "resample_to_16k"
    /\ unit.of = "samples"
    /\ unit.arg = [samples |-> <<(<<1>>), (<<0>>), (<<1>>)>>, sample_rate |-> 48000]
    /\ Len(unit.outs) = 2
    /\ unit.outs[1] = [samples |-> <<(<<1>>)>>, sample_rate |-> TargetRate]

\* C24: a buffer of n samples at a rate r other than 16000 is resampled to
\* exactly floor(n * 16000 / r) samples tagged 16000 Hz.
C24_ResampledLength ==
    (unit.fn = "resample_to_16k" /\ unit.of = "length" /\ unit.outs # <<>>
       /\ unit.arg.rate # TargetRate)
        => unit.outs[1] = AudioBuffer((unit.arg.n * TargetRate) \div unit.arg.rate,
                                      TargetRate)

\* 90518 samples at 44100 Hz (two seconds) came out as 32841 samples, one
\* more than floor(90518 * 16000 / 44100) = 32840
C24_OneSampleMore ==
    /\ unit.fn = "resample_to_16k"
    /\ unit.of = "length"
    /\ unit.arg = AudioBuffer(90518, 44100)
    /\ unit.outs # <<>>
    /\ unit.outs[1] = AudioBuffer(32841, TargetRate)

\* C25: a write_temp_wav that returns Ok has written one 16-bit value per
\* sample, each the sample clamped to [-1.0, 1.0] times 32767 (the f32
\* product) truncated toward zero, and each within [-32767, 32767]; NaN is
\* written as 0.
C25_PcmClamped ==
    (unit.fn = "write_temp_wav" /\ unit.outs # <<>> /\ unit.outs[1].ok) =>
        LET pcm == unit.outs[1].val IN
        /\ Len(pcm) = Len(unit.arg)
        /\ \A i \in 1..Len(pcm) :
              LET x == unit.arg[i]
                  c == IF AboveOne(x) THEN F32One(x.sign) ELSE x
                  mag == IF c.kind = "num"
                            THEN F32ToUsize(F32Mul(32767, [m |-> c.m, k |-> c.k]))
                            ELSE 0
              IN /\ pcm[i] \in (0 - 32767)..32767
                 /\ pcm[i] = c.sign * mag

\* 1.5 and -1.5 were written as 32767 and -32767
C25_Witness ==
    /\ unit.fn = "write_temp_wav"
    /\ unit.arg = <<F32Num(1, 3 * Pow2(22), 23), F32Num(0 - 1, 3 * Pow2(22), 23)>>
    /\ unit.outs = <<Ok(<<32767, 0 - 32767>>)>>

\* the license file under a path, if there is one
LicenseAt(path) ==
    IF path \in DOMAIN unit.files THEN unit.files[path] ELSE Unreadable

\* C26: import_license_file with a path that is empty, unreadable, in the old
\* container format, wrongly signed or bound to another MAC address returns
\* LICENSE_INVALID and leaves entitlement free and status invalid, whatever
\* the configuration was before.
C26_BadImportRejected ==
    (unit.fn = "licensing" /\ unit.ret.op = "import_license_file") =>
        LET path == Trim(unit.ret.arg)
            file == LicenseAt(path)
            same_mac == {"aa:bb:cc:dd:ee:01", "AA-BB-CC-DD-EE-01"}
            bad == \/ path = ""
                   \/ ~file.readable
                   \/ ~file.container
                   \/ file.signed_by \notin unit.keys
                   \/ /\ unit.device_mac \in same_mac
                      /\ file.payload.mac_address \notin same_mac
                   \/ /\ unit.device_mac = "unknown"
                      /\ file.payload.mac_address \in
                             same_mac \cup {"00:00:00:00:00:00"}
        IN bad => /\ unit.ret.res = Err(LICENSE_INVALID_CODE)
                  /\ unit.config.entitlement = ENTITLEMENT_FREE
                  /\ unit.config.license_status = LICENSE_STATUS_INVALID

\* a configuration that was pro has imported a license bound to another MAC
\* address: the import failed and the configuration is free and invalid
C26_Witness ==
    /\ unit.fn = "licensing"
    /\ unit.ret.op = "import_license_file"
    /\ unit.ret.arg = "a.wdlic"
    /\ unit.files["a.wdlic"] =
          [GoodLicense EXCEPT !.payload.mac_address = "00:00:00:00:00:00"]
    /\ unit.keys = {"k1"}
    /\ unit.ret.before.entitlement = ENTITLEMENT_PRO
    /\ unit.ret.before.license_status = LICENSE_STATUS_VALID
    /\ unit.ret.res = Err(LICENSE_INVALID_CODE)
    /\ unit.config = LicenseConfig(ENTITLEMENT_FREE, LICENSE_STATUS_INVALID, "a.wdlic")

\* the license under a path passes every check of validate_license_contents
LicenseIsGood(path) ==
    LET file == LicenseAt(path) IN
    /\ file.readable /\ file.container /\ file.payload_parses
    /\ file.version = "1" /\ file.algorithm = "RSA-SHA256" /\ file.kid = "1"
    /\ file.signed_by \in unit.keys
    /\ file.payload.issuer = DEFAULT_LICENSE_ISSUER
    /\ file.payload.complete
    /\ file.payload.expires_at # ""
    /\ \/ /\ unit.device_mac = "aa:bb:cc:dd:ee:01"
          /\ file.payload.mac_address \in {"aa:bb:cc:dd:ee:01", "AA-BB-CC-DD-EE-01"}
       \/ /\ unit.device_mac = "unknown"
          /\ file.payload.mac_address = "Unknown"

\* C27: validate_current_license gives free / none when no license path is
\* stored (none, or a blank one), pro / valid when the stored path validates,
\* free / invalid otherwise; after a successful import_license_file it gives
\* pro / valid.
C27_ValidateCurrent ==
    (unit.fn = "licensing" /\ unit.ret.op = "validate_current_license") =>
        LET stored == unit.ret.before.license_file_path
            expected ==
                IF stored = None \/ Trim(stored) = ""
                   THEN <<ENTITLEMENT_FREE, LICENSE_STATUS_NONE>>
                ELSE IF LicenseIsGood(stored)
                   THEN <<ENTITLEMENT_PRO, LICENSE_STATUS_VALID>>
                ELSE <<ENTITLEMENT_FREE, LICENSE_STATUS_INVALID>>
        IN /\ unit.ret.res.ok
           /\ <<unit.config.entitlement, unit.config.license_status>> = expected
           /\ unit.ret.promoted =>
                 expected = <<ENTITLEMENT_PRO, LICENSE_STATUS_VALID>>

\* a license was imported successfully and the re-validation that followed
\* has left the configuration pro and valid
C27_Witness ==
    /\ unit.fn = "licensing"
    /\ unit.ret.op = "validate_current_license"
    /\ unit.ret.promoted
    /\ unit.ret.before = LicenseConfig(ENTITLEMENT_PRO, LICENSE_STATUS_VALID, "b.wdlic")
    /\ unit.config = LicenseConfig(ENTITLEMENT_PRO, LICENSE_STATUS_VALID, "b.wdlic")

\* C28: between the worker's commands the recording flag is true exactly when
\* the worker holds its one input stream; the flag becomes true only in the
\* step that started a stream, and the step in which Stop takes the stream
\* clears it.
C28_FlagIffStream ==
    /\ (recording <=> recorder.on)
    /\ [][ /\ (recording' <=> recorder'.on)
           /\ recorder'.on => opens' = 1
           /\ (recording' /\ ~recording)
                 => (~recorder.on /\ recorder'.on /\ last'.op = "start_opened")
           /\ (recorder.on /\ ~recorder'.on)
                 => (~recording' /\ cmdq # <<>> /\ Head(cmdq).kind = "Stop")
         ]_vars

\* Stop has taken a stream that had delivered a frame: the flag is clear again
\* and the buffer is on its way to the caller
C28_Witness ==
    /\ ~recording
    /\ ~recorder.on
    /\ opens = 0
    /\ \E t \in Tasks : reply[t] # NoReply /\ reply[t].n = MaxSamples

\* the chunks of a sequence one after the other
RECURSIVE Concat(_)
Concat(chunks) == IF chunks = <<>> THEN <<>> ELSE Head(chunks) \o Concat(Tail(chunks))

\* C29: the buffer stop returns is the concatenation, in arrival order, of the
\* mono frames of whole callback chunks: of every chunk whose callback had
\* returned when stop was called, and of no part of a chunk; it does not
\* change after the snapshot.
C29_SnapshotIsWholeChunks ==
    /\ []((unit.fn = "recorder" /\ unit.snapshot.taken) =>
            \E k \in unit.before_stop..Len(unit.arrived) :
                unit.snapshot.samples = Concat(SubSeq(unit.arrived, 1, k)))
    /\ [][(unit.fn = "recorder" /\ unit.snapshot.taken)
             => unit'.snapshot = unit.snapshot]_vars

\* stop has returned two stereo chunks, the second of which arrived before
\* the stream was dropped and took the lock before stop did
C29_Witness ==
    /\ unit.fn = "recorder"
    /\ unit.channels = 2
    /\ unit.snapshot.taken
    /\ unit.before_stop = 1
    /\ unit.arrived = <<(<<1>>), (<<0, 2>>)>>
    /\ unit.returned = 2
    /\ unit.snapshot.samples = <<1, 0, 2>>

\* the server processes that run: the one of the handle and the dropped ones
Live(st) == st \in {"loading", "serving", "gui"}
LiveServers == (IF Live(srv.st) THEN 1 ELSE 0) + Len(old.procs)

\* C30: the supervisor has one handle; a process whose handle was replaced
\* has its input pipe closed and eventually exits, so that, unless handles go
\* on being replaced for ever, from some moment on at most one server process
\* is alive.
C30_OldServersExit ==
    \/ []<><<old'.flip # old.flip>>_vars
    \/ <>[](LiveServers <= 1)

\* the handle was replaced while its process, whose model had failed to load,
\* was running as an application instance: that process and the new server
\* are both alive
C30_OldServerStays ==
    /\ old.watch
    /\ old.procs = <<"gui">>
    /\ srv.st = "serving"
    /\ handle.model_id = "small"
    /\ \A c \in Callers : pc[c] = "idle"

\* C31: the usage counter changes only in the step in which a stop_recording
\* whose transcription succeeded with a text returns, and then by exactly one;
\* a stop_recording that returns at its first check, on an empty buffer or
\* with an error leaves the configuration as it was.
C31_CountedOnlyOnSuccess ==
    [][ /\ cfg'.free_transcriptions_left # cfg.free_transcriptions_left =>
              \E t \in Tasks :
                 /\ pc[t] = "stop_result"
                 /\ loc[t].res.ok
                 /\ loc[t].res.val # ""
                 /\ last'.who = t
                 /\ last'.op = "stop_recording"
                 /\ last'.ret = Ok(loc[t].res.val)
                 /\ cfg.free_transcriptions_left > 0
                 /\ cfg'.free_transcriptions_left = cfg.free_transcriptions_left - 1
        /\ (last'.op = "stop_recording"
              /\ (~last'.ret.ok \/ pc[last'.who] \in {"stop", "stop_wait"}))
              => cfg' = cfg
      ]_vars

\* a stop_recording has failed in the supervisor after an earlier one was
\* counted: the counter is one below its start
C31_Witness ==
    /\ last.op = "stop_recording"
    /\ ~last.ret.ok
    /\ "emit_status" \in Did(last.did)
    /\ cfg.free_transcriptions_left = FreeInit - 1

\* C32: while a stream is capturing the status is Recording. Taken between
\* the calls' own steps: the worker has no command left to handle and no
\* start_recording is between its Start command and its set_mode.
C32_RecordingWhileCapturing ==
    (recording /\ cmdq = <<>> /\ \A t \in Tasks : pc[t] # "start_mode")
        => tray = "Recording"

\* a stop_recording has returned and left the status Idle or Error, over the
\* Recording of a recording that was started while it waited and that is
\* still capturing; no call is in progress
C32_StatusLostWhileCapturing ==
    /\ recording
    /\ recorder.on
    /\ cmdq = <<>>
    /\ \A t \in Tasks : pc[t] = "idle"
    /\ last.op = "stop_recording"
    /\ last.from = "Recording"
    /\ tray \in {"Idle", "Error"}

\* C33: whenever the status is Recording and the worker has no command left
\* to handle, the recording flag is true.
C33_RecordingMeansCapturing ==
    (tray = "Recording" /\ cmdq = <<>>) => recording

\* start_recording has returned Ok with the status Recording, the worker has
\* handled its Start command and could not open the device: nothing captures
C33_RecordingWithoutCapture ==
    /\ tray = "Recording"
    /\ event = StatusEvent("recording", None)
    /\ cmdq = <<>>
    /\ ~recording
    /\ ~recorder.on
    /\ opens = 0
    /\ last.who = "worker"
    /\ last.op = "start_failed"

\* the "status" field of the status:changed event that announces a tray mode
StatusName(mode) ==
    CASE mode = "Idle" -> "idle"
      [] mode = "Recording" -> "recording"
      [] mode = "Processing" -> "processing"
      [] mode = "Error" -> "error"

\* C34: whenever no start_recording or stop_recording is in progress, the
\* tray mode is not Processing and it is the status of the last status:changed
\* event (if one was emitted at all).
C34_TrayAgreesWithEvent ==
    (\A t \in Tasks : pc[t] = "idle") =>
        /\ tray # "Processing"
        /\ event.status # None => event.status = StatusName(tray)

\* stop_recording has returned from the empty buffer: the tray is Idle and
\* the last event still says processing
C34_IdleTrayProcessingEvent ==
    /\ \A t \in Tasks : pc[t] = "idle"
    /\ last.op = "stop_recording"
    /\ last.ret = Ok("")
    /\ last.from = "Processing"
    /\ tray = "Idle"
    /\ event = StatusEvent("processing", None)

\* C35: of the stop_recording calls that stop one recording, one receives the
\* captured samples and the others the empty 16 kHz buffer. The worker answers
\* a Stop with the samples exactly when a stream was opened since the Stop
\* before it, and gives that stream up; a call that received the empty buffer
\* returns "" without a request to the supervisor, a paste or a decrement.
C35_OneStopGetsSamples ==
    [][ /\ \A t \in Tasks :
              (reply'[t].full /\ ~reply[t].full) =>
                  IF opens > 0
                     THEN /\ reply'[t] = [full |-> TRUE, n |-> recorder.n,
                                          rate |-> recorder.rate]
                          /\ ~recorder'.on
                          /\ opens' = 0
                     ELSE reply'[t] = [full |-> TRUE, n |-> 0, rate |-> TargetRate]
        /\ \A t \in Tasks :
              (pc[t] = "stop_wait" /\ pc'[t] # pc[t] /\ reply[t].n = 0) =>
                  /\ last'.who = t
                  /\ last'.ret = Ok("")
                  /\ last'.sup = NoSup
                  /\ Did(last'.did) \cap {"paste", "paste_failed", "decrement"} = {}
                  /\ cfg' = cfg
      ]_vars

\* both tasks saw the flag set and sent Stop for the same recording; the
\* worker has answered both: one holds the samples, the other the empty buffer
C35_Witness ==
    /\ \A t \in Tasks : pc[t] = "stop_wait"
    /\ reply["hotkey"] = [full |-> TRUE, n |-> MaxSamples, rate |-> TargetRate]
    /\ reply["ui"] = [full |-> TRUE, n |-> 0, rate |-> TargetRate]
    /\ cmdq = <<>>
    /\ ~recorder.on
    /\ ~recording

\* C36: once no warm-up is pending and no transcription is in flight, the
\* resident server's handle, if there is one, is for the active model.
C36_HandleForActiveModel ==
    (\A c \in Callers : pc[c] = "idle") =>
        (handle = NoHandle \/ handle.model_id = cfg.active_model)

\* every warm-up has finished without an error; the one that was started for
\* the model selected earlier spawned last, and the handle is for that model
\* while the other model is the active one
C36_StaleWarmupWins ==
    /\ \A c \in Callers : pc[c] = "idle"
    /\ cfg.active_model = "small"
    /\ handle.model_id = "base"
    /\ last.op = "preload"
    /\ last.ret = Ok("")
    /\ last.did = <<"spawn">>
    /\ modelValid = [m \in Models |-> TRUE]

\* C37: a process spawned as the transcription server never runs as an
\* application instance: when it cannot serve it exits.
C37_ServerNeverRunsApp ==
    srv.st # "gui"

\* the server of the handle failed to load its model and runs as an
\* application instance; a call on that handle has written its request, which
\* is never read, and waits in read_line with the mutex held
C37_CallerWaitsOnApp ==
    \E t \in Tasks :
        /\ pc[t] = "sup_read"
        /\ lock = t
        /\ sup[t].spawns = <<>>
        /\ srv.st = "gui"
        /\ srv.in = <<Request(t, 1)>>
        /\ srv.out = <<>>
        /\ ~CanRead(srv)

\* C38: whenever the supervisor's mutex is free the resident server has no
\* request left to answer and no answer left unread, and a line a call reads
\* is the answer to the request that call wrote last.
C38_PipesEmptyBetweenCalls ==
    /\ [](lock = "free" => (srv.in = <<>> /\ srv.out = <<>>))
    /\ [][ \A t \in Tasks :
              (pc[t] = "sup_read" /\ pc'[t] # pc[t] /\ srv.out # <<>>) =>
                  /\ Head(srv.out).to = Request(t, loc[t].attempt)
                  /\ Head(srv.out).to = sup[t].writes[Len(sup[t].writes)]
                  /\ Len(srv.out) = 1
                  /\ srv.in = <<>>
      ]_vars

\* a call has returned an error (the respawn after an empty answer failed)
\* and has left the resident server running with both pipes empty
C38_Witness ==
    /\ lock = "free"
    /\ last.op = "transcribe"
    /\ last.ret = Err("spawn server")
    /\ last.sup.reads = <<[eof |-> FALSE, text |-> ""]>>
    /\ handle # NoHandle
    /\ srv.st = "serving"
    /\ srv.in = <<>>
    /\ srv.out = <<>>

\* C39: after every import_license_file, clear_license and
\* validate_current_license the entitlement is "free" or "pro", and it is
\* "pro" exactly when the license status is "valid".
C39_ProIffValid ==
    (unit.fn = "licensing" /\ unit.ret # NoLicenseRet) =>
        /\ unit.config.entitlement \in {ENTITLEMENT_FREE, ENTITLEMENT_PRO}
        /\ unit.config.entitlement = ENTITLEMENT_PRO
              <=> unit.config.license_status = LICENSE_STATUS_VALID

\* a configuration that was pro by an accepted import has had another file
\* rejected: it is free and invalid
C39_Witness ==
    /\ unit.fn = "licensing"
    /\ unit.ret.op = "import_license_file"
    /\ unit.ret.promoted
    /\ ~unit.ret.res.ok
    /\ unit.ret.before.entitlement = ENTITLEMENT_PRO
    /\ unit.ret.before.license_status = LICENSE_STATUS_VALID
    /\ unit.config.entitlement = ENTITLEMENT_FREE
    /\ unit.config.license_status = LICENSE_STATUS_INVALID

====
